---- MODULE Spec2Model ----
(***************************************************************************)
(* SPDeploy: the monitor supervisor (internal/monitor/monitor.go), the     *)
(* configuration store it persists to, and the config-file watcher with    *)
(* its debounce timer.                                                     *)
(*                                                                         *)
(* Strings the code searches are sequences of tokens: a URL is             *)
(* <<scheme, host, "/", path>>, a commit hash a sequence of characters.    *)
(* time.Time is a natural number; the zero time is 0 and the wall clock    *)
(* starts at 1.                                                            *)
(***************************************************************************)
EXTENDS Integers, Sequences, FiniteSets, TLC

----
\* Bounds of the model.
MaxTime == 2
MaxTasks == 2
MaxEdits == 1
MaxCommits == 2
MaxEvents == 3
MaxLatency == 1

----
\* Values.
ZeroTime == 0

RepoIds == {"r1", "r2"}

GitHubURL == <<"https://", "github.com", "/", "acme/site">>

GiteaURL == <<"https://", "git.example.com", "/", "acme/site">>

Paths == {"/srv/a", "/srv/b"}

\* config.Repository
Repository(id, url, branch, path, active) ==
    [ID |-> id, URL |-> url, Branch |-> branch, Path |-> path,
     Trigger |-> "push", LastSync |-> ZeroTime, Active |-> active]

\* The zero value of config.Repository.
NoRepo ==
    [ID |-> "", URL |-> <<>>, Branch |-> "", Path |-> "",
     Trigger |-> "", LastSync |-> ZeroTime, Active |-> FALSE]

\* The fields of config.Repository in declaration order: a struct copy
\* moves them one after another.
RepoFields == <<"ID", "URL", "Branch", "Path", "Trigger", "LastSync", "Active">>

\* The two (URL, Branch) settings an entry of the document is written with.
Settings == {<<GitHubURL, "main">>, <<GiteaURL, "dev">>}

\* github.RepositoryChange; NoChange is the nil pointer.
NoChange == [Type |-> "nil", Commit |-> <<>>, Branch |-> "", Timestamp |-> ZeroTime]

\* The synthetic commit of the git-based detection.
LatestCommit == <<"l", "a", "t", "e", "s", "t">>

\* A full commit hash: 40 hexadecimal digits.
Sha(n) == [i \in 1..40 |-> n]

\* Holders of m.mu.
NoHolder == <<"none", "">>

ReloadHolder(rl) == <<"reload", rl>>

Reloaders == {"periodic", "file1", "file2"}

TaskIds == 1..MaxTasks

\* What is remembered of a goroutine that returned: the watcher it ran on,
\* the remote tip at its detection, the error it reported, how far it got.
DoneTask(task) ==
    [task EXCEPT !.pc = "done", !.repo = NoRepo, !.change = NoChange,
                 !.script = "none", !.cfg = <<>>]

FreeTask ==
    [pc |-> "free", w |-> 0, repo |-> NoRepo, tip |-> 0, err |-> "",
     change |-> NoChange, pulled |-> FALSE, script |-> "none", synced |-> FALSE,
     panicking |-> FALSE, cfg |-> <<>>]

----
VARIABLES
    doc,            \* the configuration document: Config.Repositories
    edits,          \* writes of the document by the CLI or by hand so far
    usedIds,        \* the ids AddRepositoryWithToken has generated
    cli,            \* a CLI process between its Load and its Save
    file,           \* the bytes of the document: whole, truncated or garbled
    remote,         \* per path: the committer dates of the remote branch's commits
    tree,           \* per path: the working tree on disk
    clock,          \* time.Now()
    env,            \* the process environment: variable name -> value
    logged,         \* the URLs in the log lines the setup of watchers wrote
    dm,             \* the PID file, the daemon processes and the commands on them
    pm,             \* the callers of the provider manager inside the daemon
    registry,       \* the Registry of the provider manager
    query,          \* the last GetAuthenticatedURL call and what it returned
    proc,           \* a subprocess, its caller and what the caller got back
    adders,         \* the spdeploy add processes between their Load and Save
    norm,           \* a URL and what the passes of normalize made of it
    pq,             \* a PullQueue and the goroutines that call GetNext
    repositories,   \* m.repositories: id -> handle of a RepositoryWatcher (0: no entry)
    watchers,       \* the RepositoryWatcher records allocated so far
    mu,             \* m.mu
    wg,             \* m.wg
    loop,           \* the monitorLoop goroutine
    reload,         \* the ReloadRepositories call of each caller
    tasks,          \* the checkRepository goroutines
    cancelled,      \* m.ctx is done
    stop,           \* the caller of Stop
    crashed,        \* a goroutine panicked: the process is gone
    flagAccess,     \* the accesses made to IsProcessing fields
    fw,             \* the watchConfigFile goroutine
    events,         \* watcher.Events: the events not yet received
    timer,          \* debounceTimer
    burst           \* the events and reloads of the current burst (history)

vars ==
    <<doc, edits, usedIds, cli, file, remote, tree, clock, env, logged,
      registry, query, proc, adders, norm, pq, dm, pm,
      repositories, watchers,
      mu, wg, loop, reload, tasks, cancelled, stop, crashed, flagAccess,
      fw, events, timer, burst>>

docVars == <<doc, edits, usedIds, cli, file>>

gitVars == <<remote, tree>>

fleetVars == <<repositories, watchers>>

fwVars == <<fw, events, timer, burst>>

\* The state of the components that are exercised on their own.
\* The variables of the units added last.
laterVars == <<dm, pm>>

unitVars == <<registry, query, proc, adders, norm, pq, laterVars>>

----
\* strings.Contains, on tokens.
Contains(s, tok) == \E i \in 1..Len(s) : s[i] = tok

\* strings.HasPrefix, on tokens.
HasPrefix(s, p) == Len(s) >= Len(p) /\ SubSeq(s, 1, Len(p)) = p

----
\* The configuration store (config.ConfigManager), on a loaded Config.

\* The index of the first entry of cfg with this id, 0 if there is none.
IndexOfID(cfg, id) ==
    IF \E i \in 1..Len(cfg) : cfg[i].ID = id
    THEN CHOOSE i \in 1..Len(cfg) :
            cfg[i].ID = id /\ \A j \in 1..(i - 1) : cfg[j].ID # id
    ELSE 0

\* UpdateRepositorySync between its Load and its Save: the Config to save,
\* with found = FALSE for "repository not found" (nothing is saved).
SetLastSync(cfg, id, ts) ==
    LET i == IndexOfID(cfg, id)
    IN  IF i = 0 THEN [found |-> FALSE, cfg |-> cfg]
        ELSE [found |-> TRUE, cfg |-> [cfg EXCEPT ![i].LastSync = ts]]

\* The mutated add: an entry is appended whatever the Config holds.
AddEntryUnchecked(cfg, id, url, branch, path) ==
    [saved |-> TRUE,
     cfg |-> Append(cfg, Repository(id, url, branch, path, TRUE))]

\* AddRepositoryWithToken between its Load and its Save.
AddEntry(cfg, id, url, branch, path) ==
    IF \E i \in 1..Len(cfg) :
          cfg[i].URL = url /\ cfg[i].Branch = branch /\ cfg[i].Path = path
    THEN [saved |-> FALSE, cfg |-> cfg]
    ELSE [saved |-> TRUE,
          cfg |-> Append(cfg, Repository(id, url, branch, path, TRUE))]

\* RemoveRepository between its Load and its Save.
RemoveEntry(cfg, url, branch) ==
    LET keep == SelectSeq(cfg, LAMBDA r : ~(r.URL = url /\ r.Branch = branch))
    IN  IF Len(keep) = Len(cfg) THEN [saved |-> FALSE, cfg |-> cfg]
        ELSE [saved |-> TRUE, cfg |-> keep]

\* ConfigManager.Load of the bytes f holding the entries d: bytes that are
\* no YAML fail to parse; an empty file parses to a Config without entries.
Load(f, d) ==
    IF f = "garbled"
    THEN [err |-> "failed to parse config file", cfg |-> <<>>]
    ELSE [err |-> "", cfg |-> d]

----
\* Provider detection and token resolution.

\* strings.Contains of a string of several tokens.
HasInfix(s, t) ==
    \E i \in 0..(Len(s) - Len(t)) : SubSeq(s, i + 1, i + Len(t)) = t

\* The index of the first tok of s, 0 if there is none (strings.Index).
IndexOf(s, tok) ==
    IF Contains(s, tok)
    THEN CHOOSE i \in 1..Len(s) : s[i] = tok /\ \A j \in 1..(i - 1) : s[j] # tok
    ELSE 0

\* strings.TrimSpace, on the characters of a value.
TrimSpace(s) ==
    LET ink == {i \in 1..Len(s) : s[i] # " "}
    IN  IF ink = {} THEN <<>>
        ELSE SubSeq(s, CHOOSE i \in ink : \A j \in ink : i <= j,
                       CHOOSE i \in ink : \A j \in ink : j <= i)

EnvNames ==
    {"SPDEPLOY_REPO_R2_TOKEN", "SPDEPLOY_GITHUB_TOKEN", "SPDEPLOY_GITLAB_TOKEN",
     "SPDEPLOY_MY-LAB_TOKEN", "SPDEPLOY_MY_LAB_TOKEN", "SPDEPLOY_CORP_TOKEN"}

\* fmt.Sprintf("SPDEPLOY_REPO_%s_TOKEN", strings.ToUpper(repoID))
RepoTokenVar(id) ==
    CASE id = "r1" -> "SPDEPLOY_REPO_R1_TOKEN"
      [] id = "r2" -> "SPDEPLOY_REPO_R2_TOKEN"
      [] OTHER -> "SPDEPLOY_REPO__TOKEN"

\* fmt.Sprintf("SPDEPLOY_%s_TOKEN", strings.ToUpper(name))
UpperTokenVar(name) ==
    CASE name = "github" -> "SPDEPLOY_GITHUB_TOKEN"
      [] name = "gitlab" -> "SPDEPLOY_GITLAB_TOKEN"
      [] name = "my-lab" -> "SPDEPLOY_MY-LAB_TOKEN"
      [] name = "my_lab" -> "SPDEPLOY_MY_LAB_TOKEN"
      [] name = "corp" -> "SPDEPLOY_CORP_TOKEN"
      [] OTHER -> "SPDEPLOY__TOKEN"

\* getEnvToken
GetEnvToken(e, name) == IF name \in DOMAIN e THEN TrimSpace(e[name]) ELSE <<>>

\* A Provider: its Name(), its instance name and its base URL.
NewProvider(type, instanceName, baseURL) ==
    [name |-> type, instanceName |-> instanceName, baseURL |-> baseURL]

\* The nil Provider.
NoProvider == NewProvider("", "", <<>>)

\* The Registry of NewGitManagerWithProvider: the two public providers, in
\* the order of their registration, and no instance.
NewRegistry ==
    [providers |-> <<NewProvider("github", "github", <<"https://", "github.com">>),
                     NewProvider("gitlab", "gitlab", <<"https://", "gitlab.com">>)>>,
     instances |-> <<>>]

\* Provider.Detect of the GitHub and of the GitLab provider.
Detect(p, url) ==
    IF p.name = "github"
    THEN Contains(url, "github.com")
         \/ (p.instanceName # "github" /\ Contains(url, p.instanceName))
    ELSE Contains(url, "gitlab.com")
         \/ (p.instanceName # "gitlab" /\ HasInfix(url, p.baseURL))

\* extractDomain: what stands between "git@" and the first ":", or the Host
\* of the parsed URL (the authority without its user information).
extractDomain(url) ==
    IF HasPrefix(url, <<"git@">>)
    THEN SubSeq(url, 2, IF Contains(url, ":") THEN IndexOf(url, ":") - 1
                        ELSE Len(url))
    ELSE IF HasPrefix(url, <<"https://">>)
    THEN LET authority == SubSeq(url, 2, IF Contains(url, "/")
                                         THEN IndexOf(url, "/") - 1
                                         ELSE Len(url))
             ats == {i \in 1..Len(authority) : authority[i] = "@"}
         IN  IF ats = {} THEN authority
             ELSE SubSeq(authority,
                         1 + CHOOSE i \in ats : \A j \in ats : j <= i,
                         Len(authority))
    ELSE <<>>

\* The index of the instance registered for the domain, 0 if there is none.
InstanceFor(reg, domain) ==
    LET known == {i \in 1..Len(reg.instances) : reg.instances[i].domain = domain}
    IN  IF known = {} THEN 0 ELSE CHOOSE i \in known : \A j \in known : j <= i

\* The first provider of a list, NoProvider for the error.
FirstProvider(ps) == IF ps = <<>> THEN NoProvider ELSE ps[1]

\* Registry.DetectProvider from the instance found for the domain on: the
\* first provider of the type of the instance, else the first provider
\* whose Detect accepts the URL, else (automatic detection always fails)
\* the error.
DetectWith(reg, url, i) ==
    LET typed == IF i = 0 THEN <<>>
                 ELSE SelectSeq(reg.providers,
                                LAMBDA p : p.name = reg.instances[i].Type)
    IN  IF typed # <<>> THEN typed[1]
        ELSE FirstProvider(SelectSeq(reg.providers, LAMBDA p : Detect(p, url)))

\* Registry.DetectProvider
DetectProvider(reg, url) ==
    DetectWith(reg, url, InstanceFor(reg, extractDomain(url)))

\* Provider.GetTokenEnvVar; the GitLab provider replaces "-" by "_".
GetTokenEnvVar(p) ==
    IF p.name = "gitlab" /\ p.instanceName = "my-lab"
    THEN UpperTokenVar("my_lab")
    ELSE UpperTokenVar(p.instanceName)

\* The tokens of ResolveToken, in the order it tries them.
TokenSources(e, p, id) ==
    <<GetEnvToken(e, RepoTokenVar(id)),
      GetEnvToken(e, UpperTokenVar(p.instanceName)),
      GetEnvToken(e, GetTokenEnvVar(p)),
      GetEnvToken(e, UpperTokenVar(p.name))>>

\* The mutated choice: the last candidate that is not empty.
LastToken(hits) ==
    IF hits = <<>> THEN [err |-> "no token found", token |-> <<>>]
    ELSE [err |-> "", token |-> hits[Len(hits)]]

\* The loop of ResolveToken over the candidates that are not empty: the
\* first one, or the error.
FirstToken(hits) ==
    IF hits = <<>> THEN [err |-> "no token found", token |-> <<>>]
    ELSE [err |-> "", token |-> hits[1]]

\* TokenResolver.ResolveToken for the provider that was detected.
ResolveFor(p, e, id) ==
    IF p = NoProvider
    THEN [err |-> "unable to detect provider", token |-> <<>>]
    ELSE FirstToken(SelectSeq(TokenSources(e, p, id), LAMBDA t : t # <<>>))

\* TokenResolver.ResolveToken
ResolveToken(reg, e, url, id) == ResolveFor(DetectProvider(reg, url), e, id)

\* Provider.GetAuthenticatedURL of the GitHub and of the GitLab provider.
ProviderAuthURL(p, url, token) ==
    IF token = <<>> THEN url
    ELSE IF p.name = "github"
    THEN IF HasPrefix(url, <<"git@", "github.com", ":">>)
         THEN <<"https://">> \o token \o <<"@", "github.com", "/">>
              \o SubSeq(url, 4, Len(url))
         ELSE IF HasPrefix(url, <<"https://", "github.com", "/">>)
                 \/ (Contains(url, p.instanceName) /\ p.instanceName # "github"
                     /\ HasPrefix(url, <<"https://">>))
         THEN <<"https://">> \o token \o <<"@">> \o Tail(url)
         ELSE url
    ELSE IF HasPrefix(url, <<"git@", "gitlab.com", ":">>)
         THEN <<"https://", "oauth2:">> \o token \o <<"@", "gitlab.com", "/">>
              \o SubSeq(url, 4, Len(url))
         ELSE IF HasPrefix(url, <<"git@">>) /\ HasInfix(url, p.baseURL)
                 /\ Cardinality({i \in 1..Len(url) : url[i] = ":"}) = 1
         THEN <<"https://", "oauth2:">> \o token \o <<"@">>
              \o extractDomain(url) \o <<"/">>
              \o SubSeq(url, IndexOf(url, ":") + 1, Len(url))
         ELSE IF HasPrefix(url, <<"https://">>)
                 /\ (Contains(url, "gitlab.com") \/ HasInfix(url, p.baseURL))
         THEN <<"https://", "oauth2:">> \o token \o <<"@">> \o Tail(url)
         ELSE url

\* The mutated answer: a failed detection or resolution is returned as an
\* error.
AnswerStrict(p, r, url) ==
    IF r.err # ""
    THEN [url |-> url, err |-> r.err, provider |-> p, token |-> r]
    ELSE [url |-> ProviderAuthURL(p, url, r.token), err |-> "",
          provider |-> p, token |-> r]

\* What GetAuthenticatedURL returns for the provider p it detected and the
\* answer r of the resolver: the URL and the error, with p and r.
Answer(p, r, url) ==
    IF p = NoProvider \/ r.err # ""
    THEN [url |-> url, err |-> "", provider |-> p, token |-> r]
    ELSE [url |-> ProviderAuthURL(p, url, r.token), err |-> "",
          provider |-> p, token |-> r]

\* GitManagerWithProvider.GetAuthenticatedURL for the provider detected; the
\* resolver detects the same provider again.
AuthenticateAs(p, e, url, id) == Answer(p, ResolveFor(p, e, id), url)

\* GitManagerWithProvider.GetAuthenticatedURL
Authenticate(reg, e, url, id) ==
    AuthenticateAs(DetectProvider(reg, url), e, url, id)

\* The URL the monitor's provider manager answers for a repository.
GetAuthenticatedURL(e, url, id) == Authenticate(NewRegistry, e, url, id).url

\* The goroutines that call GetNext.
Getters == {"g1", "g2"}

\* A goroutine outside GetNext, with what its last call returned and
\* whether that call has waited.
IdleGetter == [pc |-> "idle", got |-> <<>>, ok |-> FALSE, waited |-> FALSE]

\* NewPullQueue, and no call of GetNext yet.
NewPullQueue == [queue |-> <<>>, processing |-> FALSE, said |-> "",
                 getters |-> [g \in Getters |-> IdleGetter]]

\* No URL is being normalized.
NoNorm == [url |-> <<>>, passes |-> 0, once |-> <<>>, out |-> <<>>]

\* The processes that run spdeploy add at the same time.
Adders == {"a1", "a2"}

\* An adder that is not between its Load and its Save; done counts the
\* commands it has finished.
IdleAdder == [pc |-> "idle", url |-> <<>>, branch |-> "", path |-> "",
              cfg |-> <<>>, done |-> 0]

\* No subprocess was started yet. Time is counted in minutes.
NoProc == [kind |-> "", timeout |-> 0, child |-> "none", elapsed |-> 0,
           caller |-> "idle", result |-> <<>>]

\* The process ids the daemons get.
MaxSpawns == 3

Pids == 11..(10 + MaxSpawns)

\* The shells that run spdeploy run -d.
Starters == {"s1", "s2"}

\* No PID file.
NoFile == [exists |-> FALSE, data |-> <<>>]

\* A shell that runs no start command.
IdleStarter == [pc |-> "idle", child |-> 0]

\* No daemon was started yet and there is no PID file.
NoDaemon == [file |-> NoFile,
             procs |-> [p \in Pids |-> "none"],
             starters |-> [s \in Starters |-> IdleStarter],
             stopper |-> "idle"]

\* A reload outside LoadProviderInstances, and a task outside
\* GetAuthenticatedURL with what its last call returned.
IdleLoader == [pc |-> "idle", left |-> <<>>]

IdleAsker == [pc |-> "idle", url |-> <<>>, id |-> "", p |-> NoProvider,
              out |-> <<>>]

\* The monitor was not started: nobody calls the provider manager.
NoCallers == [config |-> <<>>, started |-> FALSE, mu |-> "", loads |-> 0,
              loaders |-> [r \in Reloaders |-> IdleLoader],
              askers |-> [t \in TaskIds |-> IdleAsker]]

\* No GetAuthenticatedURL call was made yet.
NoQuery == [url |-> <<>>, id |-> "", answer |-> [url |-> <<>>, err |-> "",
            provider |-> NoProvider, token |-> [err |-> "", token |-> <<>>]]]

----
\* The git adapter, on the working trees and the remotes.

NoTree == [exists |-> FALSE, origin |-> <<>>, head |-> 0, ref |-> 0]

\* The index of the last "@" of s, 0 if there is none (strings.LastIndex).
LastAt(s) ==
    IF Contains(s, "@")
    THEN CHOOSE i \in 1..Len(s) :
            s[i] = "@" /\ \A j \in (i + 1)..Len(s) : s[j] # "@"
    ELSE 0

\* normalize of compareGitURLs, for HTTPS URLs: the credentials before the
\* last "@" are dropped.
NormalizeHTTPS(url) ==
    IF Contains(url, "@") /\ HasPrefix(url, <<"https://">>) /\ LastAt(url) > 1
    THEN <<"https://">> \o SubSeq(url, LastAt(url) + 1, Len(url))
    ELSE url

\* GitManager.compareGitURLs
compareGitURLs(url1, url2) == NormalizeHTTPS(url1) = NormalizeHTTPS(url2)

\* StripTokenFromURL: what follows "@github.com/" is put behind
\* "https://github.com/"; a URL without "@github.com" is returned as it is.
StripTokenFromURL(url) ==
    LET cuts == {i \in 1..(Len(url) - 2) :
                    url[i] = "@" /\ url[i + 1] = "github.com" /\ url[i + 2] = "/"}
    IN  IF cuts = {} THEN url
        ELSE LET i == CHOOSE c \in cuts : \A d \in cuts : c <= d
             IN  <<"https://", "github.com", "/">> \o SubSeq(url, i + 3, Len(url))

\* GitManager.cloneRepository with an empty githubToken: a shallow clone of
\* the remote tip; the origin is the URL it was given.
cloneRepository(t, tip, url, ok) ==
    IF ok
    THEN [tr |-> [exists |-> TRUE, origin |-> url, head |-> tip, ref |-> tip],
          err |-> ""]
    ELSE [tr |-> t, err |-> "failed to clone repository"]

\* GitManager.ValidateOrSetupRepo on the tree t of one path; ok is whether
\* the clone's network transfer succeeds.
ValidateOrSetupRepo(t, tip, url, ok) ==
    IF ~t.exists THEN cloneRepository(t, tip, url, ok)
    ELSE IF ~compareGitURLs(t.origin, url)
    THEN [tr |-> t, err |-> "remote URL does not match"]
    ELSE [tr |-> t, err |-> ""]

\* The URLs in the log lines of ValidateOrSetupRepo(url, ...) on the tree
\* t and of its caller: "Validating repository setup" has the URL it was
\* given; "Cloning repository" has StripTokenFromURL of it and "Repository
\* cloned successfully" the URL again; the mismatch error, which the caller
\* logs, has the origin and the URL.
SetupLogged(t, url, ok) ==
    {url} \cup
    (IF ~t.exists
     THEN {StripTokenFromURL(url)} \cup (IF ok THEN {url} ELSE {})
     ELSE IF ~compareGitURLs(t.origin, url) THEN {t.origin, url}
     ELSE {url})

----
\* The GitHub API client.

\* The commits of the branch with a committer date >= since, oldest first
\* (Repositories.ListCommits with Since).
CommitsSince(commits, since) ==
    SelectSeq([i \in 1..Len(commits) |-> [n |-> i, date |-> commits[i]]],
              LAMBDA c : c.date >= since)

\* GitHubClient.checkForPushChanges: the change, or NoChange.
checkForPushChanges(commits, branch, lastSync) ==
    LET listed == CommitsSince(commits, lastSync)
    IN  IF listed = <<>> THEN NoChange
        ELSE LET latestCommit == listed[Len(listed)]
             IN  IF latestCommit.date > lastSync
                 THEN [Type |-> "push", Commit |-> Sha(latestCommit.n),
                       Branch |-> branch, Timestamp |-> latestCommit.date]
                 ELSE NoChange

\* GitHubClient.CheckForChanges for the push trigger; apiOk is whether the
\* API request succeeds.
CheckForChanges(commits, url, branch, trigger, lastSync, apiOk) ==
    IF ~HasPrefix(url, <<"https://", "github.com", "/">>)
    THEN [err |-> "failed to parse repository URL", change |-> NoChange]
    ELSE IF trigger # "push"
    THEN [err |-> "invalid trigger type", change |-> NoChange]
    ELSE IF ~apiOk
    THEN [err |-> "failed to list commits", change |-> NoChange]
    ELSE [err |-> "", change |-> checkForPushChanges(commits, branch, lastSync)]

----
\* The monitor: watcher records and the reload diff.

\* &RepositoryWatcher{Config, LastSync, GitManager, RepoLogger}: the n-th
\* record allocated owns the n-th git manager and log sink.
NewWatcher(repo, n) ==
    [Config |-> repo, LastSync |-> repo.LastSync, IsProcessing |-> FALSE,
     LastError |-> "", GitManager |-> n, RepoLogger |-> n]

\* An update that replaces the record by a new one.
UpdateExistingAnew(w, repo) == NewWatcher(repo, w.GitManager)

\* ReloadRepositories, an id that is in the map: existing.Config = repo.
UpdateExisting(w, repo) == [w EXCEPT !.Config = repo]

\* ReloadRepositories, a new id: the watcher after ValidateOrSetupRepo, to
\* be inserted, and the tree it leaves.
SetupWatcher(e, t, tip, repo, n, ok) ==
    LET authURL == GetAuthenticatedURL(e, repo.URL, repo.ID)
        setup == ValidateOrSetupRepo(t, tip, authURL, ok)
    IN  [w |-> [NewWatcher(repo, n) EXCEPT !.LastError = setup.err],
         tr |-> setup.tr,
         log |-> SetupLogged(t, authURL, ok)]

\* A removal loop that removes nothing.
KeepWatcherAlways(currentRepoIDs, id) == TRUE

\* ReloadRepositories: whether the watcher of id stays in the map.
KeepWatcher(currentRepoIDs, id) == id \in currentRepoIDs

\* The removal loop of ReloadRepositories.
RemoveStale(reps, currentRepoIDs) ==
    [id \in RepoIds |-> IF KeepWatcher(currentRepoIDs, id) THEN reps[id] ELSE 0]

\* The loop of ReloadRepositories over repos[i..]: st holds the map, the
\* watcher records, the trees and currentRepoIDs; failing are the ids whose
\* clone fails.
RECURSIVE ReloadFold(_, _, _, _, _)
ReloadFold(repos, i, st, e, failing) ==
    IF i > Len(repos) THEN st
    ELSE LET repo == repos[i]
         IN  IF ~repo.Active THEN ReloadFold(repos, i + 1, st, e, failing)
             ELSE IF st.reps[repo.ID] # 0
             THEN ReloadFold(repos, i + 1,
                     [st EXCEPT !.cur = @ \cup {repo.ID},
                                !.ws[st.reps[repo.ID]] = UpdateExisting(@, repo)],
                     e, failing)
             ELSE LET n == Len(st.ws) + 1
                      s == SetupWatcher(e, st.tr[repo.Path],
                                        Len(remote[repo.Path]), repo, n,
                                        repo.ID \notin failing)
                  IN  ReloadFold(repos, i + 1,
                         [reps |-> [st.reps EXCEPT ![repo.ID] = n],
                          ws |-> Append(st.ws, s.w),
                          tr |-> [st.tr EXCEPT ![repo.Path] = s.tr],
                          cur |-> st.cur \cup {repo.ID},
                          log |-> st.log \cup s.log],
                         e, failing)

\* The locked part of ReloadRepositories applied to the list repos.
ReloadResult(repos, reps, ws, tr, e, failing) ==
    LET st == ReloadFold(repos, 1,
                 [reps |-> reps, ws |-> ws, tr |-> tr, cur |-> {}, log |-> {}],
                 e, failing)
    IN  [st EXCEPT !.reps = RemoveStale(st.reps, st.cur)]

\* The loop of loadRepositories over repos[i..]: every active entry gets a
\* new watcher record, which is set up and stored under its id.
RECURSIVE LoadFold(_, _, _, _, _)
LoadFold(repos, i, st, e, failing) ==
    IF i > Len(repos) THEN st
    ELSE LET repo == repos[i]
         IN  IF ~repo.Active THEN LoadFold(repos, i + 1, st, e, failing)
             ELSE LET n == Len(st.ws) + 1
                      s == SetupWatcher(e, st.tr[repo.Path],
                                        Len(remote[repo.Path]), repo, n,
                                        repo.ID \notin failing)
                  IN  LoadFold(repos, i + 1,
                         [reps |-> [st.reps EXCEPT ![repo.ID] = n],
                          ws |-> Append(st.ws, s.w),
                          tr |-> [st.tr EXCEPT ![repo.Path] = s.tr],
                          log |-> st.log \cup s.log],
                         e, failing)

\* The ids of the active entries of a list.
ActiveIds(repos) == {repos[i].ID : i \in {j \in 1..Len(repos) : repos[j].Active}}

\* The handles the map holds.
Handles == {repositories[id] : id \in RepoIds} \ {0}

----
\* Initial states: the state Start leaves (loadRepositories on an empty
\* map, every clone succeeding), with no CLI command under way.

InitialDocs ==
    <<<<Repository("r1", GiteaURL, "dev", "/srv/a", TRUE),
        Repository("r2", GitHubURL, "main", "/srv/b", TRUE)>>,
      <<Repository("r1", GiteaURL, "dev", "/srv/a", TRUE),
        Repository("r2", GitHubURL, "main", "/srv/b", FALSE)>>,
      <<Repository("r1", GiteaURL, "dev", "/srv/a", FALSE),
        Repository("r2", GitHubURL, "main", "/srv/b", TRUE)>>,
      <<Repository("r1", GitHubURL, "main", "/srv/a", TRUE)>>>>

EnvFleet == [n \in {"SPDEPLOY_GITHUB_TOKEN"} |-> <<"T">>]

IdleReload == [pc |-> "idle", repos |-> <<>>, err |-> ""]

IdleCli == [pc |-> "idle", op |-> "none", arg |-> NoRepo, cfg |-> <<>>]

NoBurst ==
    [n |-> 0, last |-> 0, reloads |-> 0, early |-> FALSE, orphan |-> FALSE,
     rlast |-> 0, rcount |-> 0, rreloads |-> 0, rearly |-> FALSE,
     rorphan |-> FALSE]

\* watchConfigFile at its select, or returned because the file could not
\* be watched.
InitFw(watching) ==
    /\ fw = IF watching THEN "select" ELSE "exited"
    /\ events = <<>>
    /\ timer = [armed |-> FALSE, deadline |-> 0]
    /\ burst = NoBurst

InitMonitorIn(docs, goroutines, trees, envs) ==
    /\ doc \in docs
    /\ edits = 0
    /\ usedIds = {doc[i].ID : i \in 1..Len(doc)}
    /\ cli = IdleCli
    /\ file = "whole"
    /\ remote = [p \in Paths |-> <<1>>]
    /\ clock = 1
    /\ env \in envs
    /\ registry = NewRegistry
    /\ query = NoQuery
    /\ proc = NoProc
    /\ adders = [a \in Adders |-> IdleAdder]
    /\ pq = NewPullQueue
    /\ LET st == ReloadResult(doc, [id \in RepoIds |-> 0], <<>>,
                              trees, env, {})
       IN  /\ repositories = st.reps
           /\ watchers = st.ws
           /\ tree = st.tr
           /\ logged = st.log
    /\ mu = NoHolder
    /\ wg = goroutines
    /\ loop = [pc |-> "select", snap |-> {}]
    /\ reload = [rl \in Reloaders \cup {"add"} |-> IdleReload]
    /\ tasks = [t \in TaskIds |-> FreeTask]
    /\ cancelled = FALSE
    /\ stop = [pc |-> "running", pending |-> {}]
    /\ crashed = FALSE
    /\ flagAccess = {}

\* Start with the environment of the fleet.
InitMonitorOver(docs, goroutines, trees) ==
    /\ InitMonitorIn(docs, goroutines, trees, {EnvFleet})
    /\ norm = NoNorm
    /\ dm = NoDaemon
    /\ pm = NoCallers

\* Start over paths that do not exist yet: every repository is cloned.
InitMonitor(docs, goroutines) ==
    InitMonitorOver(docs, goroutines, [p \in Paths |-> NoTree])


----
\* The events of the config directory and the debounce timer. Time is
\* counted in seconds.

\* debounceDelay := 2 * time.Second
DebounceDelay == 2

ConfigBase == "config.yaml"

FileReloaders == {"file1", "file2"}

\* The events of the config directory: the config file written or created,
\* its mode changed, another file written.
EventKinds ==
    {<<ConfigBase, "WRITE">>, <<ConfigBase, "CHMOD">>, <<"config.yaml.tmp", "WRITE">>}

\* filepath.Base(event.Name) == filepath.Base(configPath) and
\* event.Op&(fsnotify.Write|fsnotify.Create) != 0
IsConfigChange(ev) == ev.name = ConfigBase /\ ev.op \in {"WRITE", "CREATE"}

\* A timer that has expired runs its function before anything else that
\* happens at that time.
TimerDue == timer.armed /\ clock >= timer.deadline

\* fsnotify delivers an event for a file of the config directory while the
\* watcher is open; the loop receives it at most MaxLatency later.
Delivered(name, op) ==
    IF fw = "select"
    THEN Append(events, [name |-> name, op |-> op,
                         due |-> clock + MaxLatency])
    ELSE events

\* The bookkeeping of bursts by the times the events arrive: n counts the
\* events, last is the arrival of the latest write/create of the config
\* file, reloads the reloads started since the burst began. An event at
\* least a window after the one before begins a burst; orphan records that
\* the burst before it did not have exactly one reload.
Arrived(name, op) ==
    IF fw = "select" /\ IsConfigChange([name |-> name, op |-> op])
    THEN LET fresh == burst.last = 0 \/ clock - burst.last >= DebounceDelay
         IN  [burst EXCEPT
                 !.n = @ + 1,
                 !.last = clock,
                 !.reloads = IF fresh THEN 0 ELSE @,
                 !.orphan = @ \/ (fresh /\ burst.last # 0 /\ burst.reloads # 1)]
    ELSE IF fw = "select" THEN [burst EXCEPT !.n = @ + 1]
    ELSE burst

----
\* The environment: the clock, the remote, and writers of the document.

\* A second passes: not while an expired timer has yet to run or an event
\* has waited MaxLatency; past MaxTime only towards a pending timer or event.
ClockTick ==
    /\ ~crashed
    /\ clock < MaxTime \/ timer.armed \/ events # <<>>
    /\ ~TimerDue
    /\ \A i \in 1..Len(events) : clock < events[i].due
    /\ clock' = clock + 1
    /\ UNCHANGED <<docVars, gitVars, env, unitVars, logged, fleetVars, mu, wg, loop, reload, tasks,
                   cancelled, stop, crashed, flagAccess, fwVars>>

\* A commit lands on the remote branch of a path; its committer date is any
\* time up to now.
Push(p) ==
    /\ ~crashed
    /\ Len(remote[p]) < MaxCommits
    /\ \E date \in 1..clock : remote' = [remote EXCEPT ![p] = Append(@, date)]
    /\ UNCHANGED <<docVars, tree, clock, env, unitVars, logged, fleetVars, mu, wg, loop, reload,
                   tasks, cancelled, stop, crashed, flagAccess, fwVars>>

\* spdeploy add / spdeploy remove in another process: ConfigManager.Load.
CliLoad(op, arg) ==
    /\ ~crashed
    /\ cli.pc = "idle"
    /\ edits < MaxEdits
    /\ Load(file, doc).err = ""
    /\ cli' = [pc |-> "loaded", op |-> op, arg |-> arg, cfg |-> Load(file, doc).cfg]
    /\ UNCHANGED <<doc, edits, usedIds, file, gitVars, clock, env, unitVars, logged, fleetVars, mu, wg,
                   loop, reload, tasks, cancelled, stop, crashed, flagAccess,
                   fwVars>>

\* spdeploy add: the id is generated from the clock, so it is a new one.
CliAdd ==
    \E id \in RepoIds \ usedIds, s \in Settings, p \in Paths :
        CliLoad("add", Repository(id, s[1], s[2], p, TRUE))

CliRemove ==
    \E i \in 1..Len(doc) : CliLoad("remove", doc[i])

\* The rest of the command: the change is made on the loaded Config and
\* ConfigManager.Save writes it over the document.
CliSave ==
    /\ ~crashed
    /\ cli.pc = "loaded"
    /\ LET res == IF cli.op = "add"
                  THEN AddEntry(cli.cfg, cli.arg.ID, cli.arg.URL,
                                cli.arg.Branch, cli.arg.Path)
                  ELSE RemoveEntry(cli.cfg, cli.arg.URL, cli.arg.Branch)
       IN  /\ doc' = IF res.saved THEN res.cfg ELSE doc
           /\ usedIds' = IF cli.op = "add" THEN usedIds \cup {cli.arg.ID}
                         ELSE usedIds
           /\ events' = IF res.saved THEN Delivered(ConfigBase, "WRITE")
                        ELSE events
           /\ burst' = IF res.saved THEN Arrived(ConfigBase, "WRITE") ELSE burst
           /\ file' = IF res.saved THEN "whole" ELSE file
    /\ edits' = edits + 1
    /\ cli' = IdleCli
    /\ UNCHANGED <<gitVars, clock, env, unitVars, logged, fleetVars, mu, wg, loop, reload, tasks,
                   cancelled, stop, crashed, flagAccess, fw, timer>>

\* The document is edited by hand: an entry gets another URL and branch, or
\* its active flag is flipped.
HandEdit ==
    /\ ~crashed
    /\ edits < MaxEdits
    /\ file = "whole"
    /\ \E i \in 1..Len(doc) :
          \/ \E s \in Settings :
                /\ <<doc[i].URL, doc[i].Branch>> # s
                /\ doc' = [doc EXCEPT ![i].URL = s[1], ![i].Branch = s[2]]
          \/ doc' = [doc EXCEPT ![i].Active = ~@]
    /\ edits' = edits + 1
    /\ events' = Delivered(ConfigBase, "WRITE")
    /\ burst' = Arrived(ConfigBase, "WRITE")
    /\ UNCHANGED <<usedIds, cli, file, gitVars, clock, env, unitVars, logged, fleetVars, mu, wg, loop,
                   reload, tasks, cancelled, stop, crashed, flagAccess, fw,
                   timer>>

\* The document is left as bytes that are no YAML by an edit by hand.
Garble ==
    /\ ~crashed
    /\ edits < MaxEdits
    /\ file = "whole"
    /\ file' = "garbled"
    /\ edits' = edits + 1
    /\ events' = Delivered(ConfigBase, "WRITE")
    /\ burst' = Arrived(ConfigBase, "WRITE")
    /\ UNCHANGED <<doc, usedIds, cli, gitVars, clock, env, unitVars, logged, fleetVars, mu, wg,
                   loop, reload, tasks, cancelled, stop, crashed, flagAccess,
                   fw, timer>>

\* The user repairs the bytes: the document is YAML again.
Mend ==
    /\ ~crashed
    /\ file = "garbled"
    /\ file' = "whole"
    /\ events' = Delivered(ConfigBase, "WRITE")
    /\ burst' = Arrived(ConfigBase, "WRITE")
    /\ UNCHANGED <<doc, edits, usedIds, cli, gitVars, clock, env, unitVars, logged, fleetVars,
                   mu, wg, loop, reload, tasks, cancelled, stop, crashed,
                   flagAccess, fw, timer>>

\* ConfigManager.Save, the first half of os.WriteFile: the file is opened
\* with O_TRUNC and is empty. CliSave is both halves when nothing reads the
\* file in between.
CliTruncate ==
    /\ ~crashed
    /\ cli.pc = "loaded"
    /\ LET res == IF cli.op = "add"
                  THEN AddEntry(cli.cfg, cli.arg.ID, cli.arg.URL,
                                cli.arg.Branch, cli.arg.Path)
                  ELSE RemoveEntry(cli.cfg, cli.arg.URL, cli.arg.Branch)
       IN  /\ res.saved
           /\ cli' = [cli EXCEPT !.pc = "writing", !.cfg = res.cfg]
    /\ doc' = <<>>
    /\ file' = "truncated"
    /\ UNCHANGED <<edits, usedIds, gitVars, clock, env, unitVars, logged, fleetVars, mu, wg,
                   loop, reload, tasks, cancelled, stop, crashed, flagAccess,
                   fwVars>>

\* ConfigManager.Save, the second half of os.WriteFile: the data is written.
CliWrite ==
    /\ ~crashed
    /\ cli.pc = "writing"
    /\ doc' = cli.cfg
    /\ file' = "whole"
    /\ usedIds' = IF cli.op = "add" THEN usedIds \cup {cli.arg.ID} ELSE usedIds
    /\ edits' = edits + 1
    /\ cli' = IdleCli
    /\ events' = Delivered(ConfigBase, "WRITE")
    /\ burst' = Arrived(ConfigBase, "WRITE")
    /\ UNCHANGED <<gitVars, clock, env, unitVars, logged, fleetVars, mu, wg, loop, reload, tasks,
                   cancelled, stop, crashed, flagAccess, fw, timer>>

----
\* Monitor.ReloadRepositories, called by rl.

\* A reload that goes on whatever ListRepositories returned.
ReloadRejectedNever(err) == FALSE

\* ReloadRepositories: whether it returns on the error of ListRepositories.
ReloadRejected(err) == err # ""

\* m.config.ListRepositories(), and the return on its error.
ReloadList(rl) ==
    /\ ~crashed
    /\ reload[rl].pc = "list"
    /\ LET loaded == Load(file, doc)
       IN  IF ReloadRejected(loaded.err)
           THEN /\ reload' = [reload EXCEPT
                                ![rl] = [IdleReload EXCEPT !.err = loaded.err]]
                /\ loop' = IF rl = "periodic" THEN [loop EXCEPT !.pc = "select"]
                           ELSE loop
           ELSE /\ reload' = [reload EXCEPT
                                ![rl] = [pc |-> "lock", repos |-> loaded.cfg,
                                        err |-> ""]]
                /\ UNCHANGED loop
    /\ UNCHANGED <<docVars, gitVars, clock, env, unitVars, logged, fleetVars, mu, wg, tasks,
                   cancelled, stop, crashed, flagAccess, fwVars>>

\* m.mu.Lock()
ReloadLock(rl) ==
    /\ ~crashed
    /\ reload[rl].pc = "lock"
    /\ mu = NoHolder
    /\ mu' = ReloadHolder(rl)
    /\ reload' = [reload EXCEPT ![rl].pc = "apply"]
    /\ UNCHANGED <<docVars, gitVars, clock, env, unitVars, logged, fleetVars, wg, loop, tasks,
                   cancelled, stop, crashed, flagAccess, fwVars>>

\* The diff under the lock, up to the deferred m.mu.Unlock().
ReloadApply(rl) ==
    /\ ~crashed
    /\ reload[rl].pc = "apply"
    /\ mu = ReloadHolder(rl)
    /\ \E failing \in SUBSET RepoIds :
          LET st == ReloadResult(reload[rl].repos, repositories, watchers,
                                 tree, env, failing)
          IN  /\ repositories' = st.reps
              /\ watchers' = st.ws
              /\ tree' = st.tr
              /\ logged' = logged \cup st.log
    /\ mu' = NoHolder
    /\ reload' = [reload EXCEPT ![rl] = IdleReload]
    /\ loop' = IF rl = "periodic" THEN [loop EXCEPT !.pc = "select"] ELSE loop
    /\ UNCHANGED <<docVars, remote, clock, env, unitVars, wg, tasks, cancelled, stop,
                   crashed, flagAccess, fwVars>>

----
\* Monitor.AddRepository, called on the running supervisor.

\* m.config.AddRepository: the entry is appended to the document.
AddRepositorySave ==
    /\ ~crashed
    /\ reload["add"].pc = "idle"
    /\ edits < MaxEdits
    /\ file = "whole"
    /\ \E id \in RepoIds \ usedIds, s \in Settings, p \in Paths :
          LET res == AddEntry(doc, id, s[1], s[2], p)
          IN  /\ res.saved
              /\ doc' = res.cfg
              /\ usedIds' = usedIds \cup {id}
    /\ edits' = edits + 1
    /\ events' = Delivered(ConfigBase, "WRITE")
    /\ burst' = Arrived(ConfigBase, "WRITE")
    /\ reload' = [reload EXCEPT !["add"] = [IdleReload EXCEPT !.pc = "list"]]
    /\ UNCHANGED <<cli, file, gitVars, clock, env, unitVars, logged, fleetVars, mu, wg, loop,
                   tasks, cancelled, stop, crashed, flagAccess, fw, timer>>

\* loadRepositories: m.config.ListRepositories(), and the return on its
\* error.
LoadList ==
    /\ ~crashed
    /\ reload["add"].pc = "list"
    /\ LET loaded == Load(file, doc)
       IN  reload' = [reload EXCEPT
                         !["add"] = IF loaded.err # ""
                                    THEN [IdleReload EXCEPT !.err = loaded.err]
                                    ELSE [pc |-> "lock", repos |-> loaded.cfg,
                                          err |-> ""]]
    /\ UNCHANGED <<docVars, gitVars, clock, env, unitVars, logged, fleetVars, mu, wg, loop, tasks,
                   cancelled, stop, crashed, flagAccess, fwVars>>

\* loadRepositories: m.mu.Lock()
LoadLock ==
    /\ ~crashed
    /\ reload["add"].pc = "lock"
    /\ mu = NoHolder
    /\ mu' = ReloadHolder("add")
    /\ reload' = [reload EXCEPT !["add"].pc = "apply"]
    /\ UNCHANGED <<docVars, gitVars, clock, env, unitVars, logged, fleetVars, wg, loop, tasks,
                   cancelled, stop, crashed, flagAccess, fwVars>>

\* loadRepositories: the loop under the lock, up to the deferred Unlock.
LoadApply ==
    /\ ~crashed
    /\ reload["add"].pc = "apply"
    /\ mu = ReloadHolder("add")
    /\ \E failing \in SUBSET RepoIds :
          LET st == LoadFold(reload["add"].repos, 1,
                             [reps |-> repositories, ws |-> watchers,
                              tr |-> tree, log |-> logged], env, failing)
          IN  /\ repositories' = st.reps
              /\ watchers' = st.ws
              /\ tree' = st.tr
              /\ logged' = st.log
    /\ mu' = NoHolder
    /\ reload' = [reload EXCEPT !["add"] = IdleReload]
    /\ UNCHANGED <<docVars, remote, clock, env, unitVars, wg, loop, tasks, cancelled,
                   stop, crashed, flagAccess, fwVars>>

----
\* The monitorLoop goroutine.

\* case <-reloadTicker.C
LoopReload ==
    /\ ~crashed
    /\ loop.pc = "select"
    /\ loop' = [loop EXCEPT !.pc = "reload"]
    /\ reload' = [reload EXCEPT
                    !["periodic"] = [IdleReload EXCEPT !.pc = "list"]]
    /\ UNCHANGED <<docVars, gitVars, clock, env, unitVars, logged, fleetVars, mu, wg, tasks,
                   cancelled, stop, crashed, flagAccess, fwVars>>

\* case <-ticker.C: checkAllRepositories takes the read lock, copies the
\* watcher handles of the map and releases the lock.
CheckAllSnapshot ==
    /\ ~crashed
    /\ loop.pc = "select"
    /\ mu = NoHolder
    /\ loop' = IF Handles = {} THEN loop
               ELSE [pc |-> "fanout", snap |-> Handles]
    /\ UNCHANGED <<docVars, gitVars, clock, env, unitVars, logged, fleetVars, mu, wg, reload,
                   tasks, cancelled, stop, crashed, flagAccess, fwVars>>

\* The next goroutine to be spawned, 0 when MaxTasks have been.
FreeSlot ==
    IF \E t \in TaskIds : tasks[t].pc = "free"
    THEN CHOOSE t \in TaskIds :
            tasks[t].pc = "free" /\ \A u \in 1..(t - 1) : tasks[u].pc # "free"
    ELSE 0

\* checkAllRepositories: whether a task is started for watcher record w.
ShouldSpawn(w) == ~w.IsProcessing

\* checkAllRepositories: whether the loop holds m.mu when it tests
\* repo.IsProcessing; the read lock was released after the copy.
FanoutHoldsLock == FALSE

\* checkAllRepositories: one turn of the loop over the copied handles.
CheckAllNext(h) ==
    /\ ~crashed
    /\ loop.pc = "fanout"
    /\ h \in loop.snap
    /\ flagAccess' = flagAccess \cup
                         {[by |-> "fanout", op |-> "read", locked |-> FanoutHoldsLock]}
    /\ IF ShouldSpawn(watchers[h])
       THEN /\ FreeSlot # 0
            /\ wg' = wg + 1
            /\ tasks' = [tasks EXCEPT ![FreeSlot] =
                            [FreeTask EXCEPT !.pc = "spawned", !.w = h]]
       ELSE UNCHANGED <<wg, tasks>>
    /\ loop' = IF loop.snap = {h} THEN [pc |-> "select", snap |-> {}]
               ELSE [loop EXCEPT !.snap = @ \ {h}]
    /\ UNCHANGED <<docVars, gitVars, clock, env, unitVars, logged, fleetVars, mu, reload,
                   cancelled, stop, crashed, fwVars>>

\* case <-m.ctx.Done(): return, and the deferred m.wg.Done().
LoopExit ==
    /\ ~crashed
    /\ loop.pc = "select"
    /\ cancelled
    /\ loop' = [loop EXCEPT !.pc = "exited"]
    /\ wg' = wg - 1
    /\ UNCHANGED <<docVars, gitVars, clock, env, unitVars, logged, fleetVars, mu, reload, tasks,
                   cancelled, stop, crashed, flagAccess, fwVars>>

----
\* Monitor.Stop

\* The goroutines of watcher tasks that have not returned.
InFlight == {t \in TaskIds : tasks[t].pc \notin {"free", "done"}}

\* m.cancel(); pending remembers the tasks in flight at that moment.
StopCancel ==
    /\ ~crashed
    /\ stop.pc = "running"
    /\ cancelled' = TRUE
    /\ stop' = [pc |-> "waiting", pending |-> InFlight]
    /\ UNCHANGED <<docVars, gitVars, clock, env, unitVars, logged, fleetVars, mu, wg, loop,
                   reload, tasks, crashed, flagAccess, fwVars>>

\* A Wait that returns at once.
WaitReturnsAtOnce == TRUE

\* Whether m.wg.Wait() returns.
WaitReturns == wg = 0

StopReturn ==
    /\ ~crashed
    /\ stop.pc = "waiting"
    /\ WaitReturns
    /\ stop' = [stop EXCEPT !.pc = "returned"]
    /\ UNCHANGED <<docVars, gitVars, clock, env, unitVars, logged, fleetVars, mu, wg, loop,
                   reload, tasks, cancelled, crashed, flagAccess, fwVars>>

----
\* Monitor.checkRepository, run by goroutine t on watcher record tasks[t].w.

\* A struct copy that a concurrent assignment overtakes after k fields: the
\* first k fields are those of old, the rest those of new.
Mix(old, new, k) ==
    [f \in DOMAIN old |->
        IF \E i \in 1..k : RepoFields[i] = f THEN old[f] ELSE new[f]]

\* repo := watcher.Config, done without the lock: how many fields are
\* copied before the rest is read again.
CopySplits == 0..Len(RepoFields)

\* repo := watcher.Config, the first fields.
TaskCopy(t) ==
    /\ ~crashed
    /\ tasks[t].pc = "spawned"
    /\ tasks' = [tasks EXCEPT ![t].pc = "copying",
                              ![t].repo = watchers[tasks[t].w].Config]
    /\ UNCHANGED <<docVars, gitVars, clock, env, unitVars, logged, fleetVars, mu, wg, loop,
                   reload, cancelled, stop, crashed, flagAccess, fwVars>>

\* repo := watcher.Config, the remaining fields.
TaskCopyRest(t) ==
    /\ ~crashed
    /\ tasks[t].pc = "copying"
    /\ \E k \in CopySplits :
          tasks' = [tasks EXCEPT
                       ![t].pc = "mark",
                       ![t].repo = Mix(@, watchers[tasks[t].w].Config, k)]
    /\ UNCHANGED <<docVars, gitVars, clock, env, unitVars, logged, fleetVars, mu, wg, loop,
                   reload, cancelled, stop, crashed, flagAccess, fwVars>>

\* Whether a task holds m.mu when it writes watcher.IsProcessing.
TaskHoldsLock == TRUE

\* m.mu.Lock(); watcher.IsProcessing = true; m.mu.Unlock()
TaskMark(t) ==
    /\ ~crashed
    /\ tasks[t].pc = "mark"
    /\ mu = NoHolder
    /\ watchers' = [watchers EXCEPT ![tasks[t].w].IsProcessing = TRUE]
    /\ flagAccess' = flagAccess \cup
                         {[by |-> "task", op |-> "write", locked |-> TaskHoldsLock]}
    /\ tasks' = [tasks EXCEPT ![t].pc = "check"]
    /\ UNCHANGED <<docVars, gitVars, clock, env, unitVars, logged, repositories, mu, wg, loop,
                   reload, cancelled, stop, crashed, fwVars>>

\* strings.Contains(repo.URL, "github.com")
isGitHub(repo) == Contains(repo.URL, "github.com")

\* checkRepositoryViaGit on the tree of repo.Path: rev-parse of the local
\* branch, the fetch into refs/remotes/origin (a failed fetch is logged and
\* the old ref is read), rev-parse of the remote ref, the comparison.
checkRepositoryViaGit(t, tip, fetchOk) ==
    IF ~t.exists
    THEN [tr |-> t, err |-> "failed to get local commit", hasChanges |-> FALSE]
    ELSE LET fetched == IF fetchOk THEN [t EXCEPT !.ref = tip] ELSE t
         IN  [tr |-> fetched, err |-> "",
              hasChanges |-> fetched.head # fetched.ref]

\* The synthetic change of the git-based detection.
SyntheticChange(repo, now) ==
    [Type |-> "push", Commit |-> LatestCommit, Branch |-> repo.Branch,
     Timestamp |-> now]

\* Where a task goes when detection or pull fails: LastError is set and the
\* function returns.
TaskFail(t, err) ==
    /\ watchers' = [watchers EXCEPT ![tasks[t].w].LastError = err]
    /\ tasks' = [tasks EXCEPT ![t].pc = "defer", ![t].err = err]

\* Change detection.
TaskCheck(t) ==
    /\ ~crashed
    /\ tasks[t].pc = "check"
    /\ LET repo == tasks[t].repo
           w == watchers[tasks[t].w]
       IN  IF isGitHub(repo)
           THEN /\ \E apiOk \in BOOLEAN :
                      LET res == CheckForChanges(remote[repo.Path], repo.URL,
                                    repo.Branch, repo.Trigger, w.LastSync, apiOk)
                      IN  IF res.err # "" THEN TaskFail(t, res.err)
                          ELSE /\ tasks' = [tasks EXCEPT
                                    ![t].tip = Len(remote[repo.Path]),
                                    ![t].change = res.change,
                                    ![t].pc = IF res.change = NoChange
                                              THEN "defer" ELSE "pull"]
                               /\ UNCHANGED watchers
                /\ UNCHANGED tree
           ELSE \E fetchOk \in BOOLEAN :
                   LET res == checkRepositoryViaGit(tree[repo.Path],
                                 Len(remote[repo.Path]), fetchOk)
                   IN  /\ tree' = [tree EXCEPT ![repo.Path] = res.tr]
                       /\ IF res.err # "" THEN TaskFail(t, res.err)
                          ELSE /\ tasks' = [tasks EXCEPT
                                    ![t].tip = Len(remote[repo.Path]),
                                    ![t].change = IF res.hasChanges
                                                  THEN SyntheticChange(repo, clock)
                                                  ELSE NoChange,
                                    ![t].pc = IF res.hasChanges
                                              THEN "pull" ELSE "defer"]
                               /\ UNCHANGED watchers
    /\ UNCHANGED <<docVars, remote, clock, env, unitVars, logged, repositories, mu, wg, loop,
                   reload, cancelled, stop, crashed, flagAccess, fwVars>>

\* GitManager.PullLatestChanges: git pull --ff-only from origin.
PullLatestChanges(t, tip, ok) ==
    IF t.exists /\ ok
    THEN [tr |-> [t EXCEPT !.head = tip, !.ref = tip], err |-> ""]
    ELSE [tr |-> t, err |-> "failed to pull changes"]

\* pullWithAuthentication: git pull <authURL> <branch>.
pullWithAuthentication(t, tip, ok) ==
    IF t.exists /\ ok
    THEN [tr |-> [t EXCEPT !.head = tip], err |-> ""]
    ELSE [tr |-> t, err |-> "failed to pull changes"]

\* A task that goes on to the script whatever the pull returned.
PullSucceededAlways(err) == TRUE

\* checkRepository after a pull: whether the function goes on to the script
\* and the update of LastSync.
PullSucceeded(err) == err = ""

\* The pull.
TaskPull(t) ==
    /\ ~crashed
    /\ tasks[t].pc = "pull"
    /\ \E ok \in BOOLEAN :
          LET repo == tasks[t].repo
              tip == Len(remote[repo.Path])
              res == IF isGitHub(repo)
                     THEN PullLatestChanges(tree[repo.Path], tip, ok)
                     ELSE pullWithAuthentication(tree[repo.Path], tip, ok)
          IN  /\ tree' = [tree EXCEPT ![repo.Path] = res.tr]
              /\ IF PullSucceeded(res.err)
                 THEN /\ tasks' = [tasks EXCEPT ![t].pc = "script",
                                                ![t].pulled = (res.err = "")]
                      /\ UNCHANGED watchers
                 ELSE TaskFail(t, res.err)
    /\ UNCHANGED <<docVars, remote, clock, env, unitVars, logged, repositories, mu, wg, loop,
                   reload, cancelled, stop, crashed, flagAccess, fwVars>>

\* checkRepository after the script: whether the function returns on its
\* result; !result.Success is only logged.
ScriptEndsTask(result) == FALSE

\* FindScript and ExecuteScript: no script, a script that succeeds, or one
\* that fails or times out.
TaskScript(t) ==
    /\ ~crashed
    /\ tasks[t].pc = "script"
    /\ \E result \in {"absent", "ok", "failed"} :
          tasks' = [tasks EXCEPT
                       ![t].script = result,
                       ![t].pc = IF ScriptEndsTask(result) THEN "defer"
                                 ELSE "sync"]
    /\ UNCHANGED <<docVars, gitVars, clock, env, unitVars, logged, fleetVars, mu, wg, loop,
                   reload, cancelled, stop, crashed, flagAccess, fwVars>>

\* watcher.LastSync = change.Timestamp; watcher.LastError = nil
TaskSync(t) ==
    /\ ~crashed
    /\ tasks[t].pc = "sync"
    /\ watchers' = [watchers EXCEPT
                       ![tasks[t].w].LastSync = tasks[t].change.Timestamp,
                       ![tasks[t].w].LastError = ""]
    /\ tasks' = [tasks EXCEPT ![t].pc = "persist"]
    /\ UNCHANGED <<docVars, gitVars, clock, env, unitVars, logged, repositories, mu, wg, loop,
                   reload, cancelled, stop, crashed, flagAccess, fwVars>>

\* A task that skips the update once its watcher has left the map.
CallsUpdateSyncIfWatched(repo, inMap) == inMap

\* checkRepository: whether m.config.UpdateRepositorySync is called for
\* the snapshot repo of a task whose watcher the map holds or not.
CallsUpdateSync(repo, inMap) == TRUE

\* m.config.UpdateRepositorySync(repo.ID, change.Timestamp): its Load and
\* the search for the id; "repository not found" is logged.
TaskPersistLoad(t) ==
    /\ ~crashed
    /\ tasks[t].pc = "persist"
    /\ LET repo == tasks[t].repo
           inMap == \E id \in RepoIds : repositories[id] = tasks[t].w
       IN  IF CallsUpdateSync(repo, inMap)
           THEN LET loaded == Load(file, doc)
                    res == SetLastSync(loaded.cfg, repo.ID,
                                       tasks[t].change.Timestamp)
                    found == loaded.err = "" /\ res.found
                IN  tasks' = [tasks EXCEPT
                        ![t].synced = TRUE,
                        ![t].cfg = IF found THEN res.cfg ELSE <<>>,
                        ![t].pc = IF found THEN "save" ELSE "log"]
           ELSE tasks' = [tasks EXCEPT ![t].pc = "log"]
    /\ UNCHANGED <<docVars, gitVars, clock, env, unitVars, logged, fleetVars, mu, wg, loop,
                   reload, cancelled, stop, crashed, flagAccess, fwVars>>

\* m.config.UpdateRepositorySync: its Save.
TaskPersistSave(t) ==
    /\ ~crashed
    /\ tasks[t].pc = "save"
    /\ doc' = tasks[t].cfg
    /\ file' = "whole"
    /\ events' = Delivered(ConfigBase, "WRITE")
    /\ burst' = Arrived(ConfigBase, "WRITE")
    /\ tasks' = [tasks EXCEPT ![t].pc = "log", ![t].cfg = <<>>]
    /\ UNCHANGED <<edits, usedIds, cli, gitVars, clock, env, unitVars, logged, fleetVars, mu, wg,
                   loop, reload, cancelled, stop, crashed, flagAccess, fw,
                   timer>>

\* change.Commit[:8] panics when the commit has fewer than 8 characters.
SliceInRange(commit, n) == n <= Len(commit)

\* The "Deployment complete" log lines.
TaskLog(t) ==
    /\ ~crashed
    /\ tasks[t].pc = "log"
    /\ tasks' = [tasks EXCEPT
                    ![t].pc = "defer",
                    ![t].panicking = ~SliceInRange(tasks[t].change.Commit, 8)]
    /\ UNCHANGED <<docVars, gitVars, clock, env, unitVars, logged, fleetVars, mu, wg, loop,
                   reload, cancelled, stop, crashed, flagAccess, fwVars>>

\* The deferred function: m.mu.Lock(); watcher.IsProcessing = false;
\* m.mu.Unlock(); then the goroutine's deferred m.wg.Done(). A panic that
\* unwound through both ends the process.
TaskClear(t) ==
    /\ ~crashed
    /\ tasks[t].pc = "defer"
    /\ mu = NoHolder
    /\ watchers' = [watchers EXCEPT ![tasks[t].w].IsProcessing = FALSE]
    /\ flagAccess' = flagAccess \cup
                         {[by |-> "task", op |-> "write", locked |-> TaskHoldsLock]}
    /\ wg' = wg - 1
    /\ crashed' = tasks[t].panicking
    /\ tasks' = [tasks EXCEPT ![t] = DoneTask(@)]
    /\ UNCHANGED <<docVars, gitVars, clock, env, unitVars, logged, repositories, mu, loop,
                   reload, cancelled, stop, fwVars>>

----
\* The watchConfigFile loop.

\* Some process rewrites or touches a file of the config directory.
EventArrive ==
    /\ ~crashed
    /\ fw = "select"
    /\ burst.n < MaxEvents
    /\ ~TimerDue
    /\ \E kind \in EventKinds :
          /\ events' = Delivered(kind[1], kind[2])
          /\ burst' = Arrived(kind[1], kind[2])
    /\ UNCHANGED <<docVars, gitVars, clock, env, unitVars, logged, fleetVars, mu, wg, loop,
                   reload, tasks, cancelled, stop, crashed, flagAccess, fw,
                   timer>>

\* A timer that is left running when it is already armed.
ResetTimerIfIdle(tm, now) ==
    IF tm.armed THEN tm ELSE [armed |-> TRUE, deadline |-> now + DebounceDelay]

\* debounceTimer.Stop() and time.AfterFunc(debounceDelay, ...): the timer
\* after a config change is received at time now.
ResetTimer(tm, now) == [armed |-> TRUE, deadline |-> now + DebounceDelay]

\* case event := <-watcher.Events. The fields rlast, rcount, rreloads,
\* rearly and rorphan of burst keep the books by the times of receipt.
HandleEvent ==
    /\ ~crashed
    /\ fw = "select"
    /\ events # <<>>
    /\ ~TimerDue
    /\ events' = Tail(events)
    /\ IF IsConfigChange(Head(events))
       THEN /\ timer' = ResetTimer(timer, clock)
            /\ LET fresh == burst.rlast = 0
                            \/ clock - burst.rlast >= DebounceDelay
               IN  burst' = [burst EXCEPT
                       !.rlast = clock,
                       !.rcount = IF fresh THEN 1 ELSE @ + 1,
                       !.rreloads = IF fresh THEN 0 ELSE @,
                       !.rorphan = @ \/ (fresh /\ burst.rlast # 0
                                               /\ burst.rreloads # 1)]
       ELSE UNCHANGED <<timer, burst>>
    /\ UNCHANGED <<docVars, gitVars, clock, env, unitVars, logged, fleetVars, mu, wg, loop,
                   reload, tasks, cancelled, stop, crashed, flagAccess, fw>>

\* The first idle ReloadRepositories call of a timer goroutine.
FreeFileReloader ==
    IF \E rl \in FileReloaders : reload[rl].pc = "idle"
    THEN CHOOSE rl \in FileReloaders :
            reload[rl].pc = "idle" /\ (rl = "file1" \/ reload["file1"].pc # "idle")
    ELSE "none"

\* The timer expires: its function runs in a goroutine of its own and calls
\* m.ReloadRepositories().
TimerFire ==
    /\ ~crashed
    /\ TimerDue
    /\ FreeFileReloader # "none"
    /\ timer' = [timer EXCEPT !.armed = FALSE]
    /\ reload' = [reload EXCEPT
                    ![FreeFileReloader] = [IdleReload EXCEPT !.pc = "list"]]
    /\ burst' = [burst EXCEPT
                    !.reloads = @ + 1,
                    !.early = @ \/ clock < burst.last + DebounceDelay,
                    !.rreloads = @ + 1,
                    !.rearly = @ \/ clock < burst.rlast + DebounceDelay]
    /\ UNCHANGED <<docVars, gitVars, clock, env, unitVars, logged, fleetVars, mu, wg, loop,
                   tasks, cancelled, stop, crashed, flagAccess, fw, events>>

\* case <-m.ctx.Done(): debounceTimer.Stop(), return, and the deferred
\* watcher.Close() and m.wg.Done().
FwExit ==
    /\ ~crashed
    /\ fw = "select"
    /\ cancelled
    /\ fw' = "exited"
    /\ timer' = [timer EXCEPT !.armed = FALSE]
    /\ events' = <<>>
    /\ wg' = wg - 1
    /\ UNCHANGED <<docVars, gitVars, clock, env, unitVars, logged, fleetVars, mu, loop, reload,
                   tasks, cancelled, stop, crashed, flagAccess, burst>>

----
\* Specifications.

Poll ==
    \/ LoopReload
    \/ CheckAllSnapshot
    \/ \E h \in 1..Len(watchers) : CheckAllNext(h)

Reload(rls) ==
    \E rl \in rls : ReloadList(rl) \/ ReloadLock(rl) \/ ReloadApply(rl)

Task ==
    \E t \in TaskIds :
        \/ TaskCopy(t)
        \/ TaskCopyRest(t)
        \/ TaskMark(t)
        \/ TaskCheck(t)
        \/ TaskPull(t)
        \/ TaskScript(t)
        \/ TaskSync(t)
        \/ TaskPersistLoad(t)
        \/ TaskPersistSave(t)
        \/ TaskLog(t)
        \/ TaskClear(t)

Stop == StopCancel \/ StopReturn

\* The supervisor of one active repository, over a document nobody edits:
\* the poll loop, the periodic reload, the watcher tasks, pushes to the
\* remotes and Stop. The config file could not be watched.
InitFleet == InitMonitor({InitialDocs[2]}, 1) /\ InitFw(FALSE)

NextFleet ==
    \/ ClockTick
    \/ \E p \in Paths : Push(p)
    \/ Poll
    \/ LoopExit
    \/ Reload({"periodic"})
    \/ Task
    \/ Stop

SpecFleet == InitFleet /\ [][NextFleet]_vars

\* The supervisor while the document is edited by hand: the poll loop, the
\* periodic reload and the watcher tasks.
InitReload == InitMonitor({InitialDocs[1], InitialDocs[2]}, 1) /\ InitFw(FALSE)

NextReload ==
    \/ HandEdit
    \/ Poll
    \/ Reload({"periodic"})
    \/ Task

SpecReload == InitReload /\ [][NextReload]_vars

\* The watcher tasks of two repositories and a CLI command of another
\* process, all writing the document.
InitStore == InitMonitor({InitialDocs[1]}, 1) /\ InitFw(FALSE)

NextStore ==
    \/ \E p \in Paths : Push(p)
    \/ CliRemove
    \/ CliSave
    \/ CheckAllSnapshot
    \/ \E h \in 1..Len(watchers) : CheckAllNext(h)
    \/ Task

SpecStore == InitStore /\ [][NextStore]_vars

\* The supervisor with the config file watched, over the short horizon of
\* the debounce window: no poll tick and no periodic reload falls into it.
InitDebounce == InitMonitor({InitialDocs[1]}, 2) /\ InitFw(TRUE)

NextDebounce ==
    \/ ClockTick
    \/ EventArrive
    \/ HandleEvent
    \/ TimerFire
    \/ FwExit
    \/ LoopExit
    \/ Reload(FileReloaders)
    \/ Stop

SpecDebounce == InitDebounce /\ [][NextDebounce]_vars

\* The supervisor of one active repository, on a github.com URL or on
\* another host, over a document nobody edits: the poll ticks, the watcher
\* tasks and pushes to the remotes.
InitDetect == InitMonitor({InitialDocs[2], InitialDocs[3]}, 1) /\ InitFw(FALSE)

NextDetect ==
    \/ ClockTick
    \/ \E p \in Paths : Push(p)
    \/ CheckAllSnapshot
    \/ \E h \in 1..Len(watchers) : CheckAllNext(h)
    \/ Task

SpecDetect == InitDetect /\ [][NextDetect]_vars

\* The steps of the goroutine t.
TaskOf(t) ==
    \/ TaskCopy(t)
    \/ TaskCopyRest(t)
    \/ TaskMark(t)
    \/ TaskCheck(t)
    \/ TaskPull(t)
    \/ TaskScript(t)
    \/ TaskSync(t)
    \/ TaskPersistLoad(t)
    \/ TaskPersistSave(t)
    \/ TaskLog(t)
    \/ TaskClear(t)

\* The same supervisor with the Go scheduler's guarantee: a goroutine that
\* can take its next step does take it. The git commands and the API call
\* return, and the script is killed at its timeout.
SpecLive == InitDetect /\ [][NextDetect]_vars /\ \A t \in TaskIds : WF_vars(TaskOf(t))

\* The supervisor started over a path that holds the working tree of another
\* remote, so that the setup of r1 failed, while the document is edited by
\* hand: the poll loop, the periodic reload and the watcher tasks.
ForeignTree ==
    [exists |-> TRUE, origin |-> GitHubURL, head |-> 1, ref |-> 1]

InitRecover ==
    /\ InitMonitorOver({InitialDocs[2]}, 1,
                       [p \in Paths |-> IF p = "/srv/a" THEN ForeignTree
                                        ELSE NoTree])
    /\ InitFw(FALSE)

SpecRecover == InitRecover /\ [][NextReload]_vars

\* The supervisor of one repository on which AddRepository is called, with
\* the poll ticks and the watcher tasks.
InitAdd == InitMonitor({InitialDocs[4]}, 1) /\ InitFw(FALSE)

NextAdd ==
    \/ AddRepositorySave
    \/ LoadList
    \/ LoadLock
    \/ LoadApply
    \/ CheckAllSnapshot
    \/ \E h \in 1..Len(watchers) : CheckAllNext(h)
    \/ Task

SpecAdd == InitAdd /\ [][NextAdd]_vars

\* The supervisor while the bytes of the document are written: by a CLI
\* command, whose Save is seen in its two halves, and by an editor that
\* leaves bytes that do not parse. The periodic reload reads them.
InitSave == InitMonitor({InitialDocs[1]}, 1) /\ InitFw(FALSE)

NextSave ==
    \/ CliRemove
    \/ CliTruncate
    \/ CliWrite
    \/ Garble
    \/ Mend
    \/ LoopReload
    \/ Reload({"periodic"})

SpecSave == InitSave /\ [][NextSave]_vars

----
\* Properties.

\* The tasks that are in the body of checkRepository, between setting and
\* clearing IsProcessing, on watcher record h.
Executing(h) ==
    {t \in TaskIds :
        /\ tasks[t].w = h
        /\ tasks[t].pc \in {"check", "pull", "script", "sync", "persist",
                            "save", "log", "defer"}}

\* C1: at every instant at most one watcher task is executing for each
\* repository, whatever the interleaving of ticks, task start-up and reloads.
C1_OneTaskPerRepository ==
    \A id \in RepoIds :
        repositories[id] # 0 => Cardinality(Executing(repositories[id])) <= 1

\* The last_sync the document holds for id, the zero time if it has none.
PersistedLastSync(cfg, id) ==
    IF IndexOfID(cfg, id) = 0 THEN ZeroTime ELSE cfg[IndexOfID(cfg, id)].LastSync

\* C2: in a step of the supervisor, the in-memory last_sync of a watcher and
\* the persisted last_sync of a repository move to a later value only in the
\* task of that repository, after its pull succeeded.
C2_LastSyncOnlyAfterPull ==
    [][(cli' = cli /\ edits' = edits) =>
        /\ \A h \in 1..Len(watchers) :
              watchers'[h].LastSync > watchers[h].LastSync =>
                 \E t \in TaskIds :
                    /\ tasks[t].pc = "sync" /\ tasks'[t].pc = "persist"
                    /\ tasks[t].w = h /\ tasks[t].pulled
        /\ \A id \in RepoIds :
              PersistedLastSync(doc', id) > PersistedLastSync(doc, id) =>
                 \E t \in TaskIds :
                    /\ tasks[t].pc = "save" /\ tasks'[t].pc = "log"
                    /\ tasks[t].repo.ID = id /\ tasks[t].pulled]_vars

\* C3: no failure inside a watcher task, the handling of a change whose
\* commit is "latest" included, ends the supervisor's process.
C3_TaskFailuresContained == ~crashed

\* C4: Stop has returned only if every watcher task that was spawned has
\* run to completion.
C4_StopWaitsForTasks ==
    stop.pc = "returned" => /\ cancelled
                            /\ InFlight = {}
                            /\ loop.pc = "exited"

\* Stop returned after a cancellation that found a task in flight.
C4_Witness == stop.pc = "returned" /\ stop.pending # {}

\* A step that is the locked part of a reload called by rl.
ReloadStep(rl) == reload[rl].pc = "apply" /\ reload'[rl].pc = "idle"

\* The entry of id in a list.
EntryOf(repos, id) == repos[IndexOfID(repos, id)]

\* C5: for every id that is in the map and active in the new list, a reload
\* keeps the watcher record and changes nothing of it but Config, which
\* becomes the entry of the list.
C5_ReloadFrame ==
    [][\A rl \in Reloaders : ReloadStep(rl) =>
          \A id \in ActiveIds(reload[rl].repos) :
             repositories[id] # 0 =>
                /\ repositories'[id] = repositories[id]
                /\ watchers'[repositories[id]] =
                      [watchers[repositories[id]] EXCEPT
                          !.Config = EntryOf(reload[rl].repos, id)]]_vars

\* A watcher that deployed, and then had its URL replaced by a reload.
C5_Witness ==
    /\ repositories["r2"] # 0
    /\ watchers[repositories["r2"]].Config.URL = GiteaURL
    /\ watchers[repositories["r2"]].LastSync # ZeroTime

\* C6: after a reload against a list the ids of the map are the active ids
\* of the list, and every id that was not in the map has a record created in
\* this reload, holding the entry and the outcome of ValidateOrSetupRepo.
C6_ReloadDiff ==
    [][\A rl \in Reloaders : ReloadStep(rl) =>
          /\ {id \in RepoIds : repositories'[id] # 0} = ActiveIds(reload[rl].repos)
          /\ \A id \in ActiveIds(reload[rl].repos) :
                repositories[id] = 0 =>
                   LET h == repositories'[id]
                       entry == EntryOf(reload[rl].repos, id)
                   IN  /\ h > Len(watchers)
                       /\ watchers'[h].Config = entry
                       /\ ~watchers'[h].IsProcessing
                       /\ watchers'[h].LastSync = entry.LastSync
                       /\ tree'[entry.Path].exists \/ watchers'[h].LastError # ""]_vars

\* The inactive entry of the second document was made active by the one
\* edit, and a reload put it into the map.
C6_Witness ==
    /\ edits = 1
    /\ doc = InitialDocs[1]
    /\ repositories["r2"] # 0
    /\ tree["/srv/b"].exists

C8_SnapshotIsWhole ==
    [][\A t \in TaskIds :
          (tasks[t].pc = "copying" /\ tasks'[t].pc = "mark") =>
             tasks'[t].repo \in {tasks[t].repo, watchers[tasks[t].w].Config}]_vars

\* C9: every read and write of IsProcessing is made under m.mu.
C9_FlagUnderLock == \A a \in flagAccess : a.locked

C11_FailedReloadRejected ==
    [][\A rl \in Reloaders :
          (reload[rl].pc = "list" /\ reload'[rl] # reload[rl]
             /\ Load(file, doc).err # "")
          => /\ reload'[rl].pc = "idle"
             /\ reload'[rl].err # ""
             /\ UNCHANGED <<repositories, watchers, tree, mu>>]_vars

\* A reload has returned the parse error while watchers are in the map.
C11_Witness ==
    /\ reload["periodic"].pc = "idle"
    /\ reload["periodic"].err # ""
    /\ file = "garbled"
    /\ \E id \in RepoIds : repositories[id] # 0

\* C12: a reload never acts on a partially written document: whenever a
\* reload takes the entries it has read on to the diff, the bytes it read
\* were a whole document and not the empty file of a Save under way.
C12_ReaderSeesWholeDocument ==
    [][\A rl \in Reloaders :
          (reload[rl].pc = "list" /\ reload'[rl].pc = "lock")
             => file = "whole"]_vars

\* C13: when the pull of a watcher task fails, the task sets LastError to
\* the failure, leaves LastSync in memory and in the document as they were,
\* leaves the working tree as it was, so that the next detection sees the
\* same change, and returns: no task reaches the script or the update of
\* LastSync without a pull that succeeded.
C13_PullFailureEndsTask ==
    [][\A t \in TaskIds :
          /\ (tasks[t].pc = "pull" /\ tasks'[t].pc = "defer")
                => LET h == tasks[t].w
                   IN  /\ watchers'[h].LastError = "failed to pull changes"
                       /\ watchers'[h].LastSync = watchers[h].LastSync
                       /\ doc' = doc
                       /\ tree' = tree
                       /\ ~tasks'[t].pulled
          /\ tasks'[t].pc \in {"script", "sync", "persist", "save", "log"}
                => tasks'[t].pulled]_vars

\* A task has returned from a failed pull of a detected change.
C13_Witness ==
    \E t \in TaskIds :
        /\ tasks[t].pc = "defer"
        /\ tasks[t].change # NoChange
        /\ ~tasks[t].pulled
        /\ watchers[tasks[t].w].LastError = "failed to pull changes"

\* C14: a script that fails does not block synchronization: the task goes
\* on, sets LastSync to the time of the change, calls UpdateRepositorySync
\* and returns, leaving a supervisor that runs later ticks.
C14_ScriptFailureIsolated ==
    [][\A t \in TaskIds :
          LET failed == tasks'[t].script = "failed" \/ tasks[t].script = "failed"
              h == tasks[t].w
          IN  /\ (tasks[t].pc = "script" /\ tasks'[t].pc # "script")
                    => tasks'[t].pc = "sync"
              /\ (failed /\ tasks[t].pc = "sync" /\ tasks'[t].pc # "sync")
                    => /\ watchers'[h].LastSync = tasks[t].change.Timestamp
                       /\ watchers'[h].LastError = ""
              /\ (failed /\ tasks[t].pc = "persist" /\ tasks'[t].pc # "persist")
                    => tasks'[t].synced
              /\ (failed /\ tasks[t].pc = "defer" /\ tasks'[t].pc = "done")
                    => ~crashed']_vars

\* The tasks that returned from watcher record h without reporting an
\* error, and at whose detection the remote tip was commit n.
CleanTicks(h, n) ==
    {u \in TaskIds : /\ tasks[u].pc = "done"
                     /\ tasks[u].w = h
                     /\ tasks[u].err = ""
                     /\ tasks[u].tip = n}

\* C15: when no commit has landed on the remote branch since the detection
\* of a tick that ended without an error, the detection of the next tick
\* on that repository finds no change, so that it pulls nothing and runs no
\* script, on the API path and on the git path.
C15_IdempotentDetection ==
    [][\A t \in TaskIds :
          (/\ tasks[t].pc = "check"
           /\ tasks'[t].pc # "check"
           /\ CleanTicks(tasks[t].w, Len(remote[tasks[t].repo.Path])) # {})
          => tasks'[t].pc = "defer"]_vars

\* C16: the first tick after the clone of a repository whose LastSync is
\* zero, with the local tip equal to the remote tip, detects no change: the
\* task neither pulls nor runs a script and LastSync stays zero, on a
\* github.com URL as on any other host.
C16_FirstTickSeesNoChange ==
    [][\A t \in TaskIds :
          LET repo == tasks[t].repo
              tr == tree[repo.Path]
          IN  (/\ tasks[t].pc = "check"
               /\ tasks'[t].pc # "check"
               /\ watchers[tasks[t].w].LastSync = ZeroTime
               /\ tr.exists
               /\ tr.head = Len(remote[repo.Path])
               /\ tr.ref = Len(remote[repo.Path]))
              => /\ tasks'[t].pc = "defer"
                 /\ watchers'[tasks[t].w].LastSync = ZeroTime]_vars

\* C18: when the fetch of the remote tip fails during git-based detection
\* (the remote-tracking ref was behind the remote branch and still is after
\* the detection), the task ends with LastError set to the failure and
\* LastSync as it was.
C18_FetchFailureReported ==
    [][\A t \in TaskIds :
          LET repo == tasks[t].repo
              h == tasks[t].w
              tip == Len(remote[repo.Path])
          IN  (/\ tasks[t].pc = "check"
               /\ tasks'[t].pc # "check"
               /\ ~isGitHub(repo)
               /\ tree[repo.Path].exists
               /\ tree[repo.Path].ref # tip
               /\ tree'[repo.Path].ref # tip)
              => /\ tasks'[t].pc = "defer"
                 /\ watchers'[h].LastError # ""
                 /\ watchers'[h].LastSync = watchers[h].LastSync]_vars

\* Whether ValidateOrSetupRepo would succeed now for the entry repo, the
\* network being up.
SetupWouldSucceed(repo) ==
    ValidateOrSetupRepo(tree[repo.Path], Len(remote[repo.Path]),
                        GetAuthenticatedURL(env, repo.URL, repo.ID), TRUE).err = ""

\* C20: a watcher whose setup failed on the local tree is kept in the map
\* with LastError set, and a reload that finds the cause fixed (the setup
\* would now succeed for the entry of the list) recovers the watcher: its
\* LastError is cleared.
C20_ReloadRecoversSetup ==
    /\ \A id \in RepoIds :
          (id \in ActiveIds(doc) /\ edits = 0) => repositories[id] # 0
    /\ [][\A id \in RepoIds : \A rl \in Reloaders :
            LET h == repositories[id]
            IN  (/\ ReloadStep(rl)
                 /\ h # 0
                 /\ id \in ActiveIds(reload[rl].repos)
                 /\ watchers[h].LastError = "remote URL does not match"
                 /\ SetupWouldSucceed(EntryOf(reload[rl].repos, id)))
                => /\ repositories'[id] = h
                   /\ watchers'[h].LastError = ""]_vars

\* C19: a watcher record is created only when its repository enters the
\* active set and destroyed only when it leaves: a step changes the record
\* the map holds for an id only if it is the end of a reload or of a load
\* whose list has the id active and the map had no record (creation), or
\* the end of a reload whose list does not have the id active (destruction).
C19_WatcherLifetime ==
    [][\A id \in RepoIds :
          repositories'[id] # repositories[id]
          => \/ /\ repositories[id] = 0
                /\ \E rl \in Reloaders \cup {"add"} :
                      /\ reload[rl].pc = "apply"
                      /\ reload'[rl].pc = "idle"
                      /\ id \in ActiveIds(reload[rl].repos)
             \/ /\ repositories'[id] = 0
                /\ \E rl \in Reloaders :
                      /\ ReloadStep(rl)
                      /\ id \notin ActiveIds(reload[rl].repos)]_vars

\* C17: every watcher task eventually returns, whichever step it stops
\* at, leaving IsProcessing false on its watcher and a supervisor that runs,
\* so that a later tick can start a new task for the repository.
C17_TaskReturnsToIdle ==
    \A t \in TaskIds :
        (tasks[t].pc = "check")
            ~> (/\ tasks[t].pc = "done"
                /\ ~watchers[tasks[t].w].IsProcessing
                /\ ~crashed)

\* C21: when a reload or a load clones a working tree for a watcher and the
\* setup succeeds, the origin URL stored in the tree is the configured URL
\* without credentials, also when the clone went through a token-bearing
\* authenticated URL.
C21_OriginIsCredentialFree ==
    [][\A id \in RepoIds :
          LET h == repositories'[id]
              p == watchers'[h].Config.Path
          IN  (/\ h # 0
               /\ repositories[id] = 0
               /\ watchers'[h].LastError = ""
               /\ ~tree[p].exists
               /\ tree'[p].exists)
              => /\ tree'[p].origin = StripTokenFromURL(watchers'[h].Config.URL)
                 /\ ~Contains(tree'[p].origin, "@")]_vars

\* The token values the process resolves from its environment.
TokenValues == {TrimSpace(env[n]) : n \in DOMAIN env} \ {<<>>}

\* C22: no log line holds a resolved token value: every URL that the setup
\* of a watcher writes to the log is free of the tokens of the environment.
C22_NoTokenInLog ==
    \A line \in logged : \A token \in TokenValues : ~HasInfix(line, token)

----
\* The provider manager on its own: instances are loaded into the registry
\* and URLs are authenticated, under every environment of ProviderEnvs.

MaxInstances == 2

\* The value a variable of the environment holds for its token: the letter
\* tells the variables apart.
TokenOf(name) ==
    CASE name = "SPDEPLOY_REPO_R2_TOKEN" -> "R"
      [] name = "SPDEPLOY_GITHUB_TOKEN" -> "H"
      [] name = "SPDEPLOY_GITLAB_TOKEN" -> "L"
      [] name = "SPDEPLOY_MY-LAB_TOKEN" -> "I"
      [] name = "SPDEPLOY_MY_LAB_TOKEN" -> "D"
      [] OTHER -> "C"

\* Every variable is empty, blank, or holds its token between blanks.
ProviderEnvs == [EnvNames -> {<<>>, <<" ">>, <<" ", "x", " ">>}]

\* The environment e with the tokens of its variables.
Tokens(e) ==
    [n \in EnvNames |-> IF Len(e[n]) = 3 THEN <<" ", TokenOf(n), " ">> ELSE e[n]]

\* The instances a configuration names: a self-hosted GitLab and a GitHub
\* Enterprise.
MyLab == [Name |-> "my-lab", Type |-> "gitlab",
          BaseURL |-> <<"https://", "lab.corp.io">>]

Corp == [Name |-> "corp", Type |-> "github",
         BaseURL |-> <<"https://", "git.", "corp", ".io">>]

InstanceLists == {<<MyLab>>, <<Corp>>, <<MyLab, Corp>>}

\* The URLs that are asked for.
QueryURLs ==
    {GitHubURL, GiteaURL,
     <<"git@", "github.com", ":", "acme/site">>,
     <<"https://", "lab.corp.io", "/", "acme/site">>,
     <<"https://", "lab.corp.io", ":8443", "/", "acme/site">>,
     <<"https://", "git.", "corp", ".io", "/", "acme/site">>,
     <<"https://", "git.", "corp", ".io", ":8443", "/", "acme/site">>}

\* Registry.RegisterInstance and Registry.Register of one instance, as
\* LoadProviderInstances calls them.
RegisterInstance(reg, inst) ==
    [providers |-> Append(reg.providers,
                          NewProvider(inst.Type, inst.Name, inst.BaseURL)),
     instances |-> Append(reg.instances,
                          [domain |-> extractDomain(inst.BaseURL),
                           Name |-> inst.Name, Type |-> inst.Type,
                           BaseURL |-> inst.BaseURL])]

RECURSIVE RegisterAll(_, _)
RegisterAll(reg, insts) ==
    IF insts = <<>> THEN reg
    ELSE RegisterAll(RegisterInstance(reg, Head(insts)), Tail(insts))

\* GitManagerWithProvider.LoadProviderInstances
LoadProviderInstances(insts) ==
    /\ Len(registry.instances) + Len(insts) <= MaxInstances
    /\ registry' = RegisterAll(registry, insts)
    /\ UNCHANGED <<docVars, gitVars, clock, env, logged, query, proc, adders, norm, pq, laterVars, fleetVars,
                   mu, wg, loop, reload, tasks, cancelled, stop, crashed,
                   flagAccess, fwVars>>

\* A call of GitManagerWithProvider.GetAuthenticatedURL.
AuthenticateURL(url, id) ==
    /\ query' = [url |-> url, id |-> id,
                 answer |-> Authenticate(registry, env, url, id)]
    /\ UNCHANGED <<docVars, gitVars, clock, env, logged, registry, proc, adders, norm, pq,
                   laterVars, fleetVars, mu, wg, loop, reload, tasks, cancelled, stop,
                   crashed, flagAccess, fwVars>>

InitProvider ==
    /\ InitMonitorIn({InitialDocs[2]}, 1, [p \in Paths |-> NoTree],
                     {Tokens(e) : e \in ProviderEnvs})
    /\ norm = NoNorm
    /\ dm = NoDaemon
    /\ pm = NoCallers
    /\ InitFw(FALSE)

NextProvider ==
    \/ \E insts \in InstanceLists : LoadProviderInstances(insts)
    \/ \E url \in QueryURLs, id \in RepoIds : AuthenticateURL(url, id)

SpecProvider == InitProvider /\ [][NextProvider]_vars

\* The variables ResolveToken reads for the provider p and the repository
\* id, from the highest priority to the lowest.
TokenVars(p, id) ==
    <<RepoTokenVar(id), UpperTokenVar(p.instanceName), GetTokenEnvVar(p),
      UpperTokenVar(p.name)>>

\* t is the value v without the blanks around it.
IsTrimmed(v, t) ==
    \E i \in 1..Len(v) : \E j \in i..Len(v) :
        /\ t = SubSeq(v, i, j)
        /\ v[i] # " " /\ v[j] # " "
        /\ \A k \in 1..Len(v) : (k < i \/ k > j) => v[k] = " "

\* The value of the variable name in the environment, empty when unset.
Getenv(name) == IF name \in DOMAIN env THEN env[name] ELSE <<>>

\* C23: for the provider that was detected, the resolver answers the
\* trimmed value of the first of its four variables (repository, instance,
\* provider default, provider name) whose value is not blank; a variable of
\* lower priority is never answered while one of higher priority is set.
C23_FirstTokenInOrder ==
    LET p == query.answer.provider
        names == TokenVars(p, query.id)
        set == {i \in 1..4 : \E k \in 1..Len(Getenv(names[i])) :
                                 Getenv(names[i])[k] # " "}
    IN  (query # NoQuery /\ p # NoProvider) =>
            /\ set = {} <=> query.answer.token.err # ""
            /\ \A i \in set :
                 (\A j \in set : i <= j) =>
                     IsTrimmed(Getenv(names[i]), query.answer.token.token)

\* The self-hosted handle was asked with four different variables: the
\* repository's is blank, the instance's and the default's are set, and the
\* instance's token is answered without its blanks.
C23_Witness ==
    /\ query.answer.provider.instanceName = "my-lab"
    /\ query.id = "r2"
    /\ env["SPDEPLOY_REPO_R2_TOKEN"] = <<" ">>
    /\ env["SPDEPLOY_MY-LAB_TOKEN"] = <<" ", "I", " ">>
    /\ env["SPDEPLOY_MY_LAB_TOKEN"] = <<" ", "D", " ">>
    /\ env["SPDEPLOY_GITLAB_TOKEN"] = <<" ", "L", " ">>
    /\ query.answer.token.token = <<"I">>

\* The instances of the registry whose host is that of the URL.
InstancesOf(url) ==
    {i \in 1..Len(registry.instances) :
        registry.instances[i].domain = extractDomain(url)}

\* C24: when the host of the URL is exactly that of a registered instance,
\* the handle that detection returns is the one created for that instance:
\* it carries the instance's name and reads the instance's token variable.
C24_InstanceHandleReturned ==
    [][(query' # query /\ InstancesOf(query'.url) # {}) =>
          \E i \in InstancesOf(query'.url) :
              LET inst == registry.instances[i]
                  made == NewProvider(inst.Type, inst.Name, inst.BaseURL)
              IN  /\ query'.answer.provider.instanceName = inst.Name
                  /\ GetTokenEnvVar(query'.answer.provider)
                         = GetTokenEnvVar(made)]_vars

\* C25: when no provider is detected or no token is resolved, the
\* authenticated URL is the configured URL, unchanged (an SSH URL too), and
\* no error is returned.
C25_NoTokenKeepsURL ==
    (query # NoQuery
     /\ (query.answer.provider = NoProvider \/ query.answer.token.err # "")) =>
        /\ query.answer.url = query.url
        /\ query.answer.err = ""

\* An SSH URL of GitHub was asked for without any token in the environment.
C25_Witness ==
    /\ query.url = <<"git@", "github.com", ":", "acme/site">>
    /\ query.answer.provider.name = "github"
    /\ query.answer.token.err = "no token found"
    /\ query.answer.url = query.url

----
\* Subprocesses: the git commands of the monitor and the deployment script
\* of the script runner, each with the goroutine that waits for it.

MaxElapsed == 6

\* The timeouts an executor is made with, in minutes; 0 asks for the default.
Timeouts == {0, 1, 2}

ExitCodes == {0, 1, 2}

\* The commands run by exec.Command(...).Output() or CombinedOutput().
GitCommands == {"git rev-parse", "git fetch", "git pull"}

\* NewScriptExecutor: the timeout of the executor.
NewScriptExecutor(timeout) == IF timeout = 0 THEN 5 ELSE timeout

\* The variables every action of the subprocesses leaves alone.
monitorVars ==
    <<docVars, gitVars, clock, env, logged, registry, query, adders, norm, pq,
      laterVars, fleetVars, mu, wg, loop, reload, tasks, cancelled, stop, crashed,
      flagAccess, fwVars>>

\* exec.Command("git", ...).Output(): the child is started and the caller
\* waits for it to exit; there is no timer.
ExecCommand(cmd) ==
    /\ proc.caller = "idle"
    /\ proc' = [kind |-> cmd, timeout |-> 0, child |-> "running",
                elapsed |-> 0, caller |-> "waiting", result |-> <<>>]
    /\ UNCHANGED monitorVars

\* ExecuteScript up to its select: the child runs in a goroutine of its
\* own, the caller waits for done or for time.After(se.timeout).
ExecuteScript(timeout) ==
    /\ proc.caller = "idle"
    /\ proc' = [kind |-> "script", timeout |-> NewScriptExecutor(timeout),
                child |-> "running", elapsed |-> 0, caller |-> "waiting",
                result |-> <<>>]
    /\ UNCHANGED monitorVars

\* The result of ExecuteScript for a script that exited with code.
ScriptExited(code, elapsed) ==
    [Success |-> code = 0, ExitCode |-> code,
     Error |-> IF code = 0 THEN <<>> ELSE <<"exit status ", code>>,
     Duration |-> elapsed]

\* The mutated timeout result: the exit code of a script that was not run.
ScriptTimedOutAs(timeout) ==
    [Success |-> FALSE, ExitCode |-> 0,
     Error |-> <<"script execution timed out after ", timeout>>,
     Duration |-> timeout]

\* The result of ExecuteScript after its timeout.
ScriptTimedOut(timeout) ==
    [Success |-> FALSE, ExitCode |-> -1,
     Error |-> <<"script execution timed out after ", timeout>>,
     Duration |-> timeout]

\* The timer of time.After(se.timeout) has fired and the caller has not
\* taken it yet.
TimeoutDue ==
    proc.kind = "script" /\ proc.caller = "waiting"
    /\ proc.elapsed >= proc.timeout

\* The child exits by itself: Output returns to a caller that still waits.
ChildExit(code) ==
    /\ proc.child = "running"
    /\ proc' = [proc EXCEPT
                  !.child = "exited",
                  !.caller = IF @ = "waiting" THEN "returned" ELSE @,
                  !.result = IF proc.caller # "waiting" THEN @
                             ELSE IF proc.kind = "script"
                             THEN ScriptExited(code, proc.elapsed)
                             ELSE [Success |-> code = 0, ExitCode |-> code,
                                   Error |-> <<>>, Duration |-> proc.elapsed]]
    /\ UNCHANGED monitorVars

\* case <-time.After(se.timeout): the child is killed and the timeout
\* result is returned.
ScriptTimeout ==
    /\ TimeoutDue
    /\ proc' = [proc EXCEPT !.child = IF @ = "running" THEN "killed" ELSE @,
                            !.caller = "returned",
                            !.result = ScriptTimedOut(proc.timeout)]
    /\ UNCHANGED monitorVars

\* A minute passes; a timer that is due is served first.
ExecTick ==
    /\ proc.caller = "waiting"
    /\ ~TimeoutDue
    /\ proc.elapsed < MaxElapsed
    /\ proc' = [proc EXCEPT !.elapsed = @ + 1]
    /\ UNCHANGED monitorVars

\* The caller goes on with what it got.
ExecReturn ==
    /\ proc.caller = "returned"
    /\ proc' = NoProc
    /\ UNCHANGED monitorVars

InitExec == InitMonitor({InitialDocs[4]}, 1) /\ InitFw(FALSE)

NextExec ==
    \/ \E cmd \in GitCommands : ExecCommand(cmd)
    \/ \E timeout \in Timeouts : ExecuteScript(timeout)
    \/ \E code \in ExitCodes : ChildExit(code)
    \/ ScriptTimeout
    \/ ExecTick
    \/ ExecReturn

SpecExec == InitExec /\ [][NextExec]_vars

\* Time passes and a timer that has fired is taken; a child need not exit.
SpecExecLive ==
    InitExec /\ [][NextExec]_vars /\ WF_vars(ExecTick) /\ WF_vars(ScriptTimeout)

\* C26: every subprocess is bounded by a timeout: a caller that waits for a
\* git command or for the deployment script gets its answer, whether the
\* child exits or not.
C26_SubprocessBounded == (proc.caller = "waiting") ~> (proc.caller # "waiting")

\* The caller of ExecuteScript takes the timer while the script still runs.
TimesOut ==
    /\ proc.kind = "script" /\ proc.caller = "waiting"
    /\ proc.child = "running" /\ proc.elapsed >= proc.timeout
    /\ proc'.caller = "returned" /\ proc'.child # "exited"

\* C27: a script still running at the runner's timeout is killed, and the
\* result has Success=false, ExitCode=-1 and the Error "script execution
\* timed out".
C27_TimeoutResult ==
    [][TimesOut =>
          /\ proc'.child = "killed"
          /\ proc'.result.Success = FALSE
          /\ proc'.result.ExitCode = -1
          /\ proc'.result.Error = <<"script execution timed out">>]_vars

\* C27, amended: a script still running at the runner's timeout is killed
\* at that minute, and the result has Success=false, ExitCode=-1, the
\* timeout as its Duration and the Error "script execution timed out after
\* <timeout>".
C27_TimeoutResultWithDuration ==
    [][TimesOut =>
          /\ proc.elapsed = proc.timeout
          /\ proc'.child = "killed"
          /\ proc'.result.Success = FALSE
          /\ proc'.result.ExitCode = -1
          /\ proc'.result.Duration = proc.timeout
          /\ proc'.result.Error
                 = <<"script execution timed out after ", proc.timeout>>]_vars

\* A script run with the default timeout was killed after five minutes.
C27_Witness ==
    /\ proc.kind = "script"
    /\ proc.timeout = 5
    /\ proc.elapsed = 5
    /\ proc.child = "killed"
    /\ proc.caller = "returned"
    /\ proc.result.ExitCode = -1

----
\* spdeploy add, run by several processes over the same document.

MaxAdds == 2

\* The ids time.Now().UnixNano() gives the new entries.
AddIds == {"n1", "n2", "n3", "n4"}

\* The URLs, branches and paths given on the command line.
AddURLs == {<<"acme/site">>, <<"github.com", "/", "acme/site">>, GitHubURL}

AddBranches == {"", "main"}

\* AddRepositoryWithToken: the repository URL is completed.
CleanURL(url) ==
    IF HasPrefix(url, <<"https://">>) \/ HasPrefix(url, <<"git@">>) THEN url
    ELSE IF HasPrefix(url, <<"github.com", "/">>) THEN <<"https://">> \o url
    ELSE <<"https://", "github.com", "/">> \o url

\* AddRepositoryWithToken up to the Config it has loaded.
AdderLoad(a, url, branch, path) ==
    /\ adders[a].pc = "idle"
    /\ adders[a].done < MaxAdds
    /\ Load(file, doc).err = ""
    /\ adders' = [adders EXCEPT ![a] =
                    [@ EXCEPT !.pc = "loaded", !.url = CleanURL(url),
                              !.branch = IF branch = "" THEN "main" ELSE branch,
                              !.path = path, !.cfg = Load(file, doc).cfg]]
    /\ UNCHANGED <<docVars, gitVars, clock, env, logged, registry, query,
                   proc, norm, pq, laterVars, fleetVars, mu, wg, loop, reload, tasks, cancelled,
                   stop, crashed, flagAccess, fwVars>>

\* The rest of AddRepositoryWithToken: the id, the search for the triple in
\* the loaded Config, and the Save of that Config with the new entry.
AdderSave(a) ==
    /\ adders[a].pc = "loaded"
    /\ \E id \in AddIds \ usedIds :
          LET res == AddEntry(adders[a].cfg, id, adders[a].url,
                              adders[a].branch, adders[a].path)
          IN  /\ doc' = IF res.saved THEN res.cfg ELSE doc
              /\ file' = IF res.saved THEN "whole" ELSE file
              /\ events' = IF res.saved THEN Delivered(ConfigBase, "WRITE")
                           ELSE events
              /\ burst' = IF res.saved THEN Arrived(ConfigBase, "WRITE")
                          ELSE burst
              /\ usedIds' = usedIds \cup {id}
    /\ adders' = [adders EXCEPT ![a] =
                    [IdleAdder EXCEPT !.done = adders[a].done + 1]]
    /\ UNCHANGED <<edits, cli, gitVars, clock, env, logged, registry, query,
                   proc, norm, pq, laterVars, fleetVars, mu, wg, loop, reload, tasks,
                   cancelled, stop, crashed, flagAccess, fw, timer>>

InitDup == InitMonitor({InitialDocs[4]}, 1) /\ InitFw(FALSE)

NextDup ==
    \/ \E a \in Adders, url \in AddURLs, branch \in AddBranches, p \in Paths :
          AdderLoad(a, url, branch, p)
    \/ \E a \in Adders : AdderSave(a)

SpecDup == InitDup /\ [][NextDup]_vars

\* C28: the document never holds two active entries with the same URL,
\* branch and path, however the add commands interleave.
C28_ActiveTriplesUnique ==
    \A i, j \in 1..Len(doc) :
        (i # j /\ doc[i].Active /\ doc[j].Active) =>
            ~(doc[i].URL = doc[j].URL /\ doc[i].Branch = doc[j].Branch
              /\ doc[i].Path = doc[j].Path)

\* Two adders were in flight with the same triple: the second has loaded
\* the document before the first saved its entry, and now holds a stale
\* Config that lacks the entry the document has.
C28_Witness ==
    /\ adders["a2"].pc = "loaded"
    /\ adders["a1"].done > 0
    /\ Len(doc) > Len(adders["a2"].cfg)
    /\ \E i \in 1..Len(doc) :
          /\ doc[i].URL = adders["a2"].url
          /\ doc[i].Branch = adders["a2"].branch
          /\ doc[i].Path = adders["a2"].path

----
\* normalize, the closure of compareGitURLs, on its own. A URL is a
\* sequence of tokens; the tokens with capitals, with an "@" and with a ":"
\* are listed below.

MaxPasses == 2

\* strings.ToLower of a token.
ToLower(tok) ==
    CASE tok = "HTTPS://" -> "https://"
      [] tok = "GitHub.com" -> "github.com"
      [] tok = "Acme/Site" -> "acme/site"
      [] tok = ".GIT" -> ".git"
      [] OTHER -> tok

\* The tokens that end with "@".
AtTokens == {"@", "git@"}

\* The token with its first ":" replaced by "/"; other tokens have none.
ColonToSlash(tok) ==
    CASE tok = ":" -> "/"
      [] tok = "ssh://" -> "ssh///"
      [] tok = "https://" -> "https///"
      [] tok = "http://" -> "http///"
      [] tok = "HTTPS://" -> "HTTPS///"
      [] tok = "oauth2:" -> "oauth2/"
      [] OTHER -> tok

\* strings.Replace(url, ":", "/", 1)
ReplaceFirstColon(url) ==
    LET cols == {i \in 1..Len(url) : ColonToSlash(url[i]) # url[i]}
    IN  IF cols = {} THEN url
        ELSE [url EXCEPT ![CHOOSE i \in cols : \A j \in cols : i <= j]
                             = ColonToSlash(@)]

\* strings.HasPrefix(url, "https://") || strings.HasPrefix(url, "http://")
IsHTTP(u) == HasPrefix(u, <<"https://">>) \/ HasPrefix(u, <<"http://">>)

\* normalize, first step: what stands between the scheme of an http(s) URL
\* and its last "@" is removed.
StripCredentials(x) ==
    LET ats == {i \in 1..Len(x) : x[i] \in AtTokens}
    IN  IF ats # {} /\ IsHTTP(x)
        THEN <<x[1]>> \o SubSeq(x, 1 + CHOOSE i \in ats : \A j \in ats : j <= i,
                                Len(x))
        ELSE x

\* normalize, second step: an SSH URL is rewritten to HTTPS.
SSHToHTTPS(u) ==
    IF HasPrefix(u, <<"git@", "github.com", ":">>)
       \/ HasPrefix(u, <<"git@", "gitlab.com", ":">>)
    THEN <<"https://", u[2], "/">> \o SubSeq(u, 4, Len(u))
    ELSE IF Contains(u, "git@") /\ ReplaceFirstColon(u) # u
    THEN <<"https://">>
         \o ReplaceFirstColon(IF HasPrefix(u, <<"git@">>) THEN Tail(u) ELSE u)
    ELSE u

\* normalize, third step: strings.TrimSuffix(url, ".git")
TrimGitSuffix(u) ==
    IF u # <<>> /\ u[Len(u)] = ".git" THEN SubSeq(u, 1, Len(u) - 1) ELSE u

\* normalize, fourth step: a bare github.com or gitlab.com URL gets its
\* scheme.
EnsureScheme(u) ==
    IF ~IsHTTP(u) /\ (HasPrefix(u, <<"github.com", "/">>)
                      \/ HasPrefix(u, <<"gitlab.com", "/">>))
    THEN <<"https://">> \o u ELSE u

\* strings.ToLower of a URL.
Lower(u) == [i \in 1..Len(u) |-> ToLower(u[i])]

\* normalize, the closure of compareGitURLs.
normalize(x) ==
    Lower(EnsureScheme(TrimGitSuffix(SSHToHTTPS(StripCredentials(x)))))

\* The URLs that are normalized: HTTPS and SSH forms, with and without
\* credentials and ".git".
NormalizeHosts == {"github.com", "gitlab.com", "git.example.com", "GitHub.com"}

NormalizePaths == {<<"acme/site">>, <<"acme/site", ".git">>,
                   <<"Acme/Site", ".git">>, <<"acme/site", ".GIT">>,
                   <<"acme/site", ".git", ".git">>}

NormalizeInputs ==
    {scheme \o creds \o <<host, "/">> \o path :
        scheme \in {<<>>, <<"https://">>, <<"http://">>, <<"HTTPS://">>},
        creds \in {<<>>, <<"tok", "@">>, <<"oauth2:", "tok", "@">>},
        host \in NormalizeHosts, path \in NormalizePaths}
    \cup {<<"git@", host, ":">> \o path :
            host \in NormalizeHosts, path \in NormalizePaths}
    \cup {<<"ssh://", "git@", host, "/">> \o path :
            host \in NormalizeHosts, path \in NormalizePaths}

\* One more pass of normalize over what the passes before made of the URL.
Normalize ==
    /\ norm.passes < MaxPasses
    /\ norm' = [norm EXCEPT !.passes = @ + 1,
                            !.once = IF norm.passes = 0 THEN normalize(norm.out)
                                     ELSE @,
                            !.out = normalize(@)]
    /\ UNCHANGED <<docVars, gitVars, clock, env, logged, registry, query,
                   proc, adders, pq, laterVars, fleetVars, mu, wg, loop, reload, tasks,
                   cancelled, stop, crashed, flagAccess, fwVars>>

InitNormalize ==
    /\ InitMonitorIn({InitialDocs[4]}, 1, [p \in Paths |-> NoTree], {EnvFleet})
    /\ norm \in {[url |-> x, passes |-> 0, once |-> <<>>, out |-> x] :
                    x \in NormalizeInputs}
    /\ dm = NoDaemon
    /\ pm = NoCallers
    /\ InitFw(FALSE)

NextNormalize == Normalize

SpecNormalize == InitNormalize /\ [][NextNormalize]_vars

\* C29: normalizing a normalized URL changes nothing.
C29_NormalizeIdempotent == norm.passes = 2 => norm.out = norm.once

----
\* The PullQueue. Every method runs under pq.mu, so each is one step;
\* GetNext gives the mutex up in cond.Wait and goes on when it was signalled.

\* The repositories whose pulls are queued: the first two differ in the
\* path only.
PullRepos ==
    {[URL |-> GitHubURL, Branch |-> "main", Path |-> "/srv/a"],
     [URL |-> GitHubURL, Branch |-> "main", Path |-> "/srv/b"],
     [URL |-> GiteaURL, Branch |-> "dev", Path |-> "/srv/b"]}

\* The variables the methods of the PullQueue leave alone.
queueFrame ==
    <<docVars, gitVars, clock, env, logged, registry, query, proc, adders,
      norm, laterVars, fleetVars, mu, wg, loop, reload, tasks, cancelled, stop, crashed,
      flagAccess, fwVars>>

\* cond.Signal: one of the goroutines that wait is woken, if there is any.
Signal(q) ==
    LET waiting == {g \in Getters : q.getters[g].pc = "waiting"}
    IN  IF waiting = {} THEN {q}
        ELSE {[q EXCEPT !.getters[g].pc = "woken"] : g \in waiting}

\* The mutated test of Add: a request is queued already when its path is
\* the same too.
QueuedWithPath(queue, repo) ==
    \E i \in 1..Len(queue) :
        /\ queue[i].URL = repo.URL /\ queue[i].Branch = repo.Branch
        /\ queue[i].Path = repo.Path

\* The test of the loop of Add: a request for the URL and the branch waits
\* in the queue.
Queued(queue, repo) ==
    \E i \in 1..Len(queue) :
        queue[i].URL = repo.URL /\ queue[i].Branch = repo.Branch

\* PullQueue.Add; said is the line it has logged last.
Add(repo) ==
    /\ IF Queued(pq.queue, repo)
       THEN pq' = [pq EXCEPT !.said = "Pull request already queued"]
       ELSE pq' \in Signal([pq EXCEPT !.queue = Append(@, repo),
                                      !.said = "Added pull request to queue"])
    /\ UNCHANGED queueFrame

\* PullQueue.SetProcessing
SetProcessing(processing) ==
    /\ pq' \in IF processing THEN {[pq EXCEPT !.processing = TRUE]}
               ELSE Signal([pq EXCEPT !.processing = FALSE])
    /\ UNCHANGED queueFrame

\* The mutated loop condition of GetNext: it waits while the queue is
\* not empty and nothing is processed.
MustWaitWhenFree(q) == ~q.processing /\ Len(q.queue) > 0

\* The loop condition of GetNext.
MustWait(q) == q.processing /\ Len(q.queue) > 0

\* The mutated GetNext: it does not wait, and takes the head of the queue
\* whatever the flag is.
GetNextFromAtOnce(q, g) ==
    IF Len(q.queue) = 0
    THEN [q EXCEPT !.getters[g].pc = "idle", !.getters[g].got = <<>>,
                   !.getters[g].ok = FALSE]
    ELSE [q EXCEPT !.queue = Tail(@),
                   !.processing = TRUE,
                   !.getters[g].pc = "idle",
                   !.getters[g].got = <<Head(q.queue)>>,
                   !.getters[g].ok = TRUE]

\* GetNext from the test of its loop on, for a goroutine that holds the
\* mutex: it waits, or returns nothing, or takes the head of the queue.
GetNextFrom(q, g) ==
    IF MustWait(q)
    THEN [q EXCEPT !.getters[g].pc = "waiting", !.getters[g].waited = TRUE]
    ELSE IF Len(q.queue) = 0
    THEN [q EXCEPT !.getters[g].pc = "idle", !.getters[g].got = <<>>,
                   !.getters[g].ok = FALSE]
    ELSE [q EXCEPT !.queue = Tail(@),
                   !.processing = TRUE,
                   !.getters[g].pc = "idle",
                   !.getters[g].got = <<Head(q.queue)>>,
                   !.getters[g].ok = TRUE]

\* PullQueue.GetNext is called.
GetNext(g) ==
    /\ pq.getters[g].pc = "idle"
    /\ pq' = GetNextFrom([pq EXCEPT !.getters[g] = IdleGetter], g)
    /\ UNCHANGED queueFrame

\* cond.Wait returns: the goroutine has the mutex again.
GetNextWake(g) ==
    /\ pq.getters[g].pc = "woken"
    /\ pq' = GetNextFrom(pq, g)
    /\ UNCHANGED queueFrame

InitQueue == InitMonitor({InitialDocs[4]}, 1) /\ InitFw(FALSE)

NextQueue ==
    \/ \E repo \in PullRepos : Add(repo)
    \/ \E processing \in BOOLEAN : SetProcessing(processing)
    \/ \E g \in Getters : GetNext(g)
    \/ \E g \in Getters : GetNextWake(g)

SpecQueue == InitQueue /\ [][NextQueue]_vars

\* The goroutine g is inside GetNext.
Inside(q, g) == q.getters[g].pc \in {"waiting", "woken"}

\* C30: while the processing flag is true and the queue is not empty, a
\* call of GetNext does not return; once the flag is released while
\* requests are queued, a goroutine that waited has been woken, and the
\* call that then returns takes the head of the queue and sets the flag
\* again.
C30_GetNextWaitsForRelease ==
    /\ [](\A g \in Getters :
            (pq.getters[g].pc = "waiting" /\ ~pq.processing
             /\ Len(pq.queue) > 0)
            => \E h \in Getters : pq.getters[h].pc = "woken")
    /\ [][\A g \in Getters :
            /\ (pq.processing /\ Len(pq.queue) > 0
                /\ pq'.getters[g] # pq.getters[g])
               => Inside(pq', g)
            /\ (Inside(pq, g) /\ ~Inside(pq', g) /\ Len(pq.queue) > 0)
               => /\ ~pq.processing
                  /\ pq'.getters[g].ok
                  /\ pq'.getters[g].got = <<Head(pq.queue)>>
                  /\ pq'.queue = Tail(pq.queue)
                  /\ pq'.processing]_vars

\* A call of GetNext has waited while a request was processed and has
\* then returned a request; the flag is set again.
C30_Witness ==
    \E g \in Getters :
        /\ pq.getters[g].pc = "idle"
        /\ pq.getters[g].waited
        /\ pq.getters[g].ok
        /\ pq.processing

\* C31: no two requests that wait in the queue have the same URL and
\* branch; an Add of a request whose URL and branch wait already leaves the
\* queue as it is, any other Add appends the request at the tail; and a
\* request leaves the queue only from its head, as what a GetNext returns.
C31_QueueDedupFifo ==
    /\ [](\A i, j \in 1..Len(pq.queue) :
            (pq.queue[i].URL = pq.queue[j].URL
             /\ pq.queue[i].Branch = pq.queue[j].Branch) => i = j)
    /\ [][/\ \A repo \in PullRepos :
              Add(repo) =>
                  pq'.queue = IF \E i \in 1..Len(pq.queue) :
                                    /\ pq.queue[i].URL = repo.URL
                                    /\ pq.queue[i].Branch = repo.Branch
                              THEN pq.queue
                              ELSE Append(pq.queue, repo)
          /\ pq'.queue # pq.queue =>
                \/ \E repo \in PullRepos : pq'.queue = Append(pq.queue, repo)
                \/ /\ pq.queue # <<>>
                   /\ pq'.queue = Tail(pq.queue)
                   /\ pq'.processing
                   /\ \E g \in Getters :
                         /\ pq.getters[g].pc \in {"idle", "woken"}
                         /\ pq'.getters[g].pc = "idle"
                         /\ pq'.getters[g].ok
                         /\ pq'.getters[g].got = <<Head(pq.queue)>>]_vars

\* Two requests wait, the second Add of one of them was refused, and a
\* GetNext has handed a request out before.
C31_Witness ==
    /\ Len(pq.queue) = 2
    /\ pq.said = "Pull request already queued"
    /\ \E g \in Getters : pq.getters[g].ok

----
\* The daemon helpers: the PID file, spdeploy run -d, spdeploy stop and the
\* signal handler of the daemon. Every system call on the PID file or on a
\* process is a step of its own.

Digits == <<"0", "1", "2", "3", "4", "5", "6", "7", "8", "9">>

\* strconv.Itoa of a natural number.
RECURSIVE Itoa(_)
Itoa(n) ==
    IF n < 10 THEN <<Digits[n + 1]>>
    ELSE Itoa(n \div 10) \o <<Digits[(n % 10) + 1]>>

IsDigit(c) == \E i \in 1..10 : Digits[i] = c

\* The number a sequence of digits stands for.
RECURSIVE DigitsValue(_)
DigitsValue(s) ==
    IF s = <<>> THEN 0
    ELSE 10 * DigitsValue(SubSeq(s, 1, Len(s) - 1))
         + (CHOOSE i \in 0..9 : Digits[i + 1] = s[Len(s)])

\* strconv.Atoi, on data without a sign.
Atoi(s) ==
    IF s # <<>> /\ \A i \in 1..Len(s) : IsDigit(s[i])
    THEN [err |-> FALSE, pid |-> DigitsValue(s)]
    ELSE [err |-> TRUE, pid |-> 0]

\* readDaemonPID
readDaemonPID(f) ==
    IF f.exists THEN Atoi(f.data) ELSE [err |-> TRUE, pid |-> 0]

\* The file WriteDaemonPID leaves.
WriteDaemonPID(pid) == [exists |-> TRUE, data |-> Itoa(pid)]

\* os.FindProcess and Signal(0): the process exists.
Alive(d, pid) ==
    pid \in Pids /\ d.procs[pid] \in {"running", "signalled", "removing"}

\* IsDaemonRunning
IsDaemonRunning(d) ==
    ~readDaemonPID(d.file).err /\ Alive(d, readDaemonPID(d.file).pid)

\* The PID files found at the start: none, an empty one, one with a line
\* end after the number, and one of a daemon that is gone.
InitialPidFiles ==
    {NoFile,
     [exists |-> TRUE, data |-> <<>>],
     [exists |-> TRUE, data |-> <<"7", "\n">>],
     [exists |-> TRUE, data |-> <<"7">>]}

\* The variables the daemon helpers leave alone.
daemonFrame ==
    <<docVars, gitVars, clock, env, logged, registry, query, proc, adders,
      norm, pq, pm, fleetVars, mu, wg, loop, reload, tasks, cancelled, stop,
      crashed, flagAccess, fwVars>>

\* runCmd with --daemon: the check of IsDaemonRunning.
StartCheck(s) ==
    /\ dm.starters[s].pc \in {"idle", "done", "refused", "failed"}
    /\ \E p \in Pids : dm.procs[p] = "none"
    /\ dm' = [dm EXCEPT !.starters[s] =
                [pc |-> IF IsDaemonRunning(dm) THEN "refused" ELSE "checked",
                 child |-> 0]]
    /\ UNCHANGED daemonFrame

\* runCmd with --daemon: bgCmd.Start()
StartSpawn(s) ==
    /\ dm.starters[s].pc = "checked"
    /\ \E p \in Pids : dm.procs[p] = "none"
    /\ LET child == CHOOSE p \in Pids :
                        /\ dm.procs[p] = "none"
                        /\ \A q \in Pids : dm.procs[q] = "none" => p <= q
       IN  dm' = [dm EXCEPT !.procs[child] = "running",
                            !.starters[s] = [pc |-> "spawned", child |-> child]]
    /\ UNCHANGED daemonFrame

\* runCmd with --daemon: WriteDaemonPID, and the Kill when it fails.
StartWrite(s, ok) ==
    /\ dm.starters[s].pc = "spawned"
    /\ dm' = IF ok
             THEN [dm EXCEPT !.file = WriteDaemonPID(dm.starters[s].child),
                             !.starters[s].pc = "done"]
             ELSE [dm EXCEPT !.procs[dm.starters[s].child] = "exited",
                             !.starters[s].pc = "failed"]
    /\ UNCHANGED daemonFrame

\* SIGINT or SIGTERM reaches a daemon: its handler starts.
Interrupt(p) ==
    /\ dm.procs[p] = "running"
    /\ dm' = [dm EXCEPT !.procs[p] = "signalled"]
    /\ UNCHANGED daemonFrame

\* A daemon exits without its handler: os.Exit(1) of runCmd, or a kill.
Exit(p) ==
    /\ dm.procs[p] = "running"
    /\ dm' = [dm EXCEPT !.procs[p] = "exited"]
    /\ UNCHANGED daemonFrame

\* stopCmd: the check of IsDaemonRunning.
StopCheck ==
    /\ dm.stopper = "idle"
    /\ IsDaemonRunning(dm)
    /\ dm' = [dm EXCEPT !.stopper = "stopping"]
    /\ UNCHANGED daemonFrame

\* StopDaemon up to process.Signal(SIGTERM)
StopSignal ==
    /\ dm.stopper = "stopping"
    /\ dm' = IF IsDaemonRunning(dm)
             THEN [dm EXCEPT
                     !.procs[readDaemonPID(dm.file).pid] =
                         IF @ = "running" THEN "signalled" ELSE @,
                     !.stopper = "removing"]
             ELSE [dm EXCEPT !.stopper = "idle"]
    /\ UNCHANGED daemonFrame

\* StopDaemon: os.Remove(pidFile)
StopRemove ==
    /\ dm.stopper = "removing"
    /\ dm' = [dm EXCEPT !.file = NoFile, !.stopper = "idle"]
    /\ UNCHANGED daemonFrame

\* CleanupDaemonPID in the handler of the daemon p: readDaemonPID and the
\* comparison with os.Getpid(); the handler exits the process when
\* CleanupDaemonPID has returned.
CleanupRead(p) ==
    /\ dm.procs[p] = "signalled"
    /\ dm' = [dm EXCEPT !.procs[p] =
                IF ~readDaemonPID(dm.file).err /\ readDaemonPID(dm.file).pid = p
                THEN "removing" ELSE "exited"]
    /\ UNCHANGED daemonFrame

\* CleanupDaemonPID: os.Remove(pidFile)
CleanupRemove(p) ==
    /\ dm.procs[p] = "removing"
    /\ dm' = [dm EXCEPT !.file = NoFile, !.procs[p] = "exited"]
    /\ UNCHANGED daemonFrame

InitDaemon ==
    /\ InitMonitorIn({InitialDocs[4]}, 1, [p \in Paths |-> NoTree], {EnvFleet})
    /\ norm = NoNorm
    /\ dm \in {[NoDaemon EXCEPT !.file = f] : f \in InitialPidFiles}
    /\ pm = NoCallers
    /\ InitFw(FALSE)

NextDaemon ==
    \/ \E s \in Starters : StartCheck(s)
    \/ \E s \in Starters : StartSpawn(s)
    \/ \E s \in Starters, ok \in BOOLEAN : StartWrite(s, ok)
    \/ \E p \in Pids : Interrupt(p)
    \/ \E p \in Pids : Exit(p)
    \/ StopCheck
    \/ StopSignal
    \/ StopRemove
    \/ \E p \in Pids : CleanupRead(p)
    \/ \E p \in Pids : CleanupRemove(p)

SpecDaemon == InitDaemon /\ [][NextDaemon]_vars

\* The PID file records the process id p.
Records(f, p) == f.exists /\ f.data = Itoa(p)

\* C32: when CleanupDaemonPID returns in the process p, the PID file is
\* gone if it recorded p, and is as it was if it recorded another process
\* or did not exist.
C32_CleanupOnlyOwnPid ==
    [][\A p \in Pids :
          (dm.procs[p] \in {"signalled", "removing"} /\ dm'.procs[p] = "exited")
          => dm'.file = IF Records(dm.file, p) THEN NoFile ELSE dm.file]_vars

\* The daemons that run and were not told to stop.
Daemons == {p \in Pids : dm.procs[p] = "running"}

\* C38: when no start command is between its check and its write, at most
\* one daemon runs, and the PID file records the daemon that runs.
C38_SingleDaemon ==
    (\A s \in Starters : dm.starters[s].pc \notin {"checked", "spawned"})
    => /\ Cardinality(Daemons) <= 1
       /\ (dm.stopper = "idle" => \A p \in Daemons : Records(dm.file, p))

\* C33: the Save of a load-modify-save operation on the document leaves
\* what the operation makes of the document as it is at the Save, so no
\* change saved since the operation's Load is lost: the Save of
\* UpdateRepositorySync changes the last_sync of its repository only, and
\* the Save of a CLI command adds or removes its entry only.
C33_NoLostUpdate ==
    [][/\ \A t \in 1..Len(tasks) :
            (tasks[t].pc = "save" /\ tasks'[t].pc = "log")
            => doc' = SetLastSync(doc, tasks[t].repo.ID,
                                  tasks[t].change.Timestamp).cfg
       /\ (cli.pc = "loaded" /\ cli'.pc = "idle" /\ doc' # doc)
            => doc' = IF cli.op = "add"
                      THEN AddEntry(doc, cli.arg.ID, cli.arg.URL,
                                    cli.arg.Branch, cli.arg.Path).cfg
                      ELSE RemoveEntry(doc, cli.arg.URL, cli.arg.Branch).cfg]_vars

----
\* The supervisor with the config file watched while the document is edited
\* by hand: the periodic reload of the poll loop and the reloads the
\* debounce timer starts.
InitOverlap == InitMonitor({InitialDocs[1]}, 2) /\ InitFw(TRUE)

NextOverlap ==
    \/ ClockTick
    \/ HandEdit
    \/ HandleEvent
    \/ TimerFire
    \/ LoopReload
    \/ Reload(Reloaders)

SpecOverlap == InitOverlap /\ [][NextOverlap]_vars

\* Every reload has returned, and the reload that the last write of the
\* document started is among them: its event was received and its timer
\* has fired.
ReloadsFinished ==
    /\ \A rl \in Reloaders : reload[rl].pc = "idle"
    /\ events = <<>>
    /\ ~timer.armed

\* C34: once all reloads have finished, the ids of the watcher map are the
\* active ids of the document as it is now: no list read from an older
\* document was applied after the list read from the latest one.
C34_LatestListWins ==
    ReloadsFinished => {id \in RepoIds : repositories[id] # 0} = ActiveIds(doc)

\* C35: once Stop has returned, no step belongs to a reload, and the
\* watcher map, the watcher records and the working trees stay as they
\* are.
C35_QuietAfterStop ==
    [][stop.pc = "returned" =>
          /\ reload' = reload
          /\ repositories' = repositories
          /\ watchers' = watchers
          /\ tree' = tree]_vars

\* The step is a return of GetNext in the goroutine g with a request.
HandsOut(g) ==
    /\ GetNext(g) \/ GetNextWake(g)
    /\ pq'.getters[g].pc = "idle"
    /\ pq'.getters[g].ok

\* C36: with several goroutines in GetNext, no request leaves the queue
\* while the processing flag is true; a GetNext that returns a request
\* finds the flag false and sets it, so that no other GetNext returns a
\* request before SetProcessing(false); and the request it returns leaves
\* the queue in that step, so that no other GetNext returns it.
C36_OneRequestInFlight ==
    [][/\ pq.processing => /\ Len(pq'.queue) >= Len(pq.queue)
                           /\ \A g \in Getters : ~HandsOut(g)
       /\ (~pq'.processing /\ pq.processing) => pq'.queue = pq.queue
       /\ \A g \in Getters :
             HandsOut(g) =>
                /\ ~pq.processing
                /\ pq'.processing
                /\ pq.queue # <<>>
                /\ pq'.getters[g].got = <<Head(pq.queue)>>
                /\ pq'.queue = Tail(pq.queue)
                /\ \A h \in Getters \ {g} : pq'.getters[h] = pq.getters[h]]_vars

\* Two goroutines have each been handed a request, not the same one, and
\* one of them had to wait for the other's request to be processed.
C36_Witness ==
    \E g, h \in Getters :
        /\ g # h
        /\ pq.getters[g].ok /\ pq.getters[h].ok
        /\ pq.getters[g].got # pq.getters[h].got
        /\ pq.getters[h].waited
        /\ pq.getters[g].pc = "idle" /\ pq.getters[h].pc = "idle"

\* C37: a detection that reaches the remote while the remote branch holds
\* commits that were not deployed finds a change, whatever the committer
\* dates of those commits are: the task goes on to the pull.
C37_LandedCommitDetected ==
    [][\A t \in TaskIds :
          LET repo == tasks[t].repo
              tip == Len(remote[repo.Path])
          IN  (/\ tasks[t].pc = "check"
               /\ tasks'[t].pc # "check"
               /\ tasks'[t].err = ""
               /\ tree[repo.Path].exists
               /\ tree[repo.Path].head < tip
               /\ tree'[repo.Path].ref = tip \/ isGitHub(repo))
              => tasks'[t].pc = "pull"]_vars

----
\* The provider manager inside the daemon: Start and every reload load the
\* configured instances into the registry under m.mu, and the tasks ask for
\* authenticated URLs without taking m.mu.

MaxReloads == 2

\* The URLs of the repositories the tasks check.
WatchedURLs ==
    {GitHubURL,
     <<"https://", "lab.corp.io", "/", "acme/site">>,
     <<"https://", "git.", "corp", ".io", "/", "acme/site">>}

registryFrame ==
    <<docVars, gitVars, clock, env, logged, query, proc, adders, norm, pq, dm,
      fleetVars, mu, wg, loop, reload, tasks, cancelled, stop, crashed,
      flagAccess, fwVars>>

\* Monitor.Start: loadRepositories loads the instances before any other
\* goroutine of the monitor exists.
StartLoad ==
    /\ ~pm.started
    /\ registry' = RegisterAll(registry, pm.config)
    /\ pm' = [pm EXCEPT !.started = TRUE]
    /\ UNCHANGED registryFrame

\* ReloadRepositories: m.mu.Lock() and the list of the instances of the
\* configuration.
InstancesLock(r) ==
    /\ pm.started
    /\ pm.loaders[r].pc = "idle"
    /\ pm.mu = ""
    /\ pm.loads < MaxReloads
    /\ pm' = [pm EXCEPT !.mu = r, !.loads = @ + 1,
                        !.loaders[r] = [pc |-> "loading", left |-> pm.config]]
    /\ UNCHANGED <<registry, registryFrame>>

\* One pass of the loop of LoadProviderInstances: RegisterInstance and
\* Register for the next instance.
InstancesRegister(r) ==
    /\ pm.loaders[r].pc = "loading"
    /\ pm.loaders[r].left # <<>>
    /\ registry' = RegisterInstance(registry, Head(pm.loaders[r].left))
    /\ pm' = [pm EXCEPT !.loaders[r].left = Tail(@)]
    /\ UNCHANGED registryFrame

\* The rest of ReloadRepositories and the deferred m.mu.Unlock().
InstancesUnlock(r) ==
    /\ pm.loaders[r].pc = "loading"
    /\ pm.loaders[r].left = <<>>
    /\ pm' = [pm EXCEPT !.mu = "", !.loaders[r] = IdleLoader]
    /\ UNCHANGED <<registry, registryFrame>>

\* A task in GetAuthenticatedURL: the provider is detected.
AskDetect(t, url, id) ==
    /\ pm.started
    /\ pm.askers[t].pc = "idle"
    /\ pm' = [pm EXCEPT !.askers[t] = [pc |-> "detected", url |-> url,
                                       id |-> id,
                                       p |-> DetectProvider(registry, url),
                                       out |-> <<>>]]
    /\ UNCHANGED <<registry, registryFrame>>

\* The task's token is resolved, which detects the provider again, and the
\* URL is returned.
AskResolve(t) ==
    /\ pm.askers[t].pc = "detected"
    /\ LET a == pm.askers[t]
           r == ResolveToken(registry, env, a.url, a.id)
       IN  pm' = [pm EXCEPT !.askers[t] =
                     [IdleAsker EXCEPT !.p = a.p,
                                       !.out = Answer(a.p, r, a.url).url]]
    /\ UNCHANGED <<registry, registryFrame>>

InitRegistry ==
    /\ InitMonitorIn({InitialDocs[2]}, 1, [p \in Paths |-> NoTree],
                     {Tokens([n \in EnvNames |-> <<" ", "x", " ">>]),
                      [n \in EnvNames |-> <<>>]})
    /\ norm = NoNorm
    /\ dm = NoDaemon
    /\ pm \in {[NoCallers EXCEPT !.config = c] : c \in InstanceLists}
    /\ InitFw(FALSE)

NextRegistry ==
    \/ StartLoad
    \/ \E r \in Reloaders : InstancesLock(r)
    \/ \E r \in Reloaders : InstancesRegister(r)
    \/ \E r \in Reloaders : InstancesUnlock(r)
    \/ \E t \in TaskIds, url \in WatchedURLs, id \in RepoIds :
          AskDetect(t, url, id)
    \/ \E t \in TaskIds : AskResolve(t)

SpecRegistry == InitRegistry /\ [][NextRegistry]_vars

\* C39: the registry changes only while no task is inside
\* GetAuthenticatedURL, between its detection of the provider and its
\* resolution of the token.
C39_NoWriteWhileRead ==
    [][registry' # registry
       => \A t \in TaskIds : pm.askers[t].pc = "idle"]_vars

\* The instances of the configuration, each counted once.
ConfiguredInstances == {pm.config[i] : i \in 1..Len(pm.config)}

\* C40: the registry holds at most the two built-in providers and one
\* provider for each configured instance, however many reloads ran.
C40_ProvidersBounded ==
    Len(registry.providers)
        <= Len(NewRegistry.providers) + Cardinality(ConfiguredInstances)

====
